---- MODULE Spec2Model ----
(***************************************************************************)
(* Movement / destination arbitration / gathering core of osrssg.          *)
(*                                                                         *)
(* Numbers are fixed point: lengths are in thousandths of a world unit     *)
(* (one grid square, GRID_SIZE = 1.0, is 1000) and times in milliseconds.  *)
(* A Vec3 is a record [x, y, z] of integers.  Comparisons of Euclidean     *)
(* distances are made on the squared distances, which is exact; a square   *)
(* root is taken (rounded down) only where the code needs the length       *)
(* itself (normalisation, overlap depth).                                  *)
(***************************************************************************)
EXTENDS Integers, Sequences, FiniteSets, TLC

VARIABLES units, nodes, boxes, phase, dt, finalDest, last, ordered, orders, ticks,
          max_stacks

vars == <<units, nodes, boxes, phase, dt, finalDest, last, ordered, orders, ticks, max_stacks>>

(***************************************************************************)
(* Vec3 arithmetic (glam::Vec3 as used by the systems)                     *)
(***************************************************************************)
GRID_SIZE == 1000

Vec(x, y, z) == [x |-> x, y |-> y, z |-> z]

ZERO == Vec(0, 0, 0)

Add(a, b) == Vec(a.x + b.x, a.y + b.y, a.z + b.z)

Sub(a, b) == Vec(a.x - b.x, a.y - b.y, a.z - b.z)

Abs(n) == IF n < 0 THEN -n ELSE n

\* a / b rounded to the nearest integer, halves away from zero (b > 0)
RDiv(a, b) == IF a >= 0 THEN (2 * a + b) \div (2 * b) ELSE -((2 * (-a) + b) \div (2 * b))

\* v * s where s is a fixed-point scalar (thousandths)
Scale(v, s) == Vec(RDiv(v.x * s, GRID_SIZE), RDiv(v.y * s, GRID_SIZE), RDiv(v.z * s, GRID_SIZE))

Dist2(a, b) == (a.x - b.x) * (a.x - b.x) + (a.y - b.y) * (a.y - b.y) + (a.z - b.z) * (a.z - b.z)

RECURSIVE SqrtIter(_, _)
SqrtIter(n, r) ==
    LET q == (r + n \div r) \div 2
    IN  IF q >= r THEN r ELSE SqrtIter(n, q)

\* floor of the square root (Newton iteration from above)
ISqrt(n) == IF n <= 0 THEN 0 ELSE IF n < 4 THEN 1 ELSE SqrtIter(n, n \div 2)

\* a.distance(b)
Dist(a, b) == ISqrt(Dist2(a, b))

\* v.length()
Length(v) == ISqrt(Dist2(v, ZERO))

\* v.normalize_or_zero(): a direction in thousandths, or ZERO for the zero vector
NormalizeOrZero(v) ==
    LET len == Length(v)
    IN  IF len = 0 THEN ZERO
        ELSE Vec(RDiv(v.x * GRID_SIZE, len), RDiv(v.y * GRID_SIZE, len), RDiv(v.z * GRID_SIZE, len))

\* a coordinate taken to the next multiple of GRID_SIZE above it
RoundGridUp(c) == (c \div GRID_SIZE + 1) * GRID_SIZE

\* f32::round on a coordinate divided by GRID_SIZE, times GRID_SIZE (halves away from zero)
RoundGrid(c) == RDiv(c, GRID_SIZE) * GRID_SIZE

(***************************************************************************)
(* Program constants (fixed point)                                         *)
(***************************************************************************)
\* move_speed = 2.0 units per second = 2 thousandths per millisecond
MOVE_SPEED == 2

\* arrival_threshold = 0.2
ARRIVAL_THRESHOLD == 200

\* cells closer than 0.1 are the same cell (occupied_pos.distance(..) < 0.1)
CELL_EPSILON == 100

\* snap_to_grid of movement.rs pins y to 0.1; MIN_GROUND_Y is 0.1 too
GROUND_Y == 100

\* movement_threshold = 0.01, also the minimum distance of a friendly push
MOVEMENT_THRESHOLD == 10

\* StuckTimer::default().stuck_threshold = 2.0 s
STUCK_THRESHOLD == 2000

\* collision.map(|c| c.radius).unwrap_or(0.3)
DEFAULT_UNIT_RADIUS == 300

\* buffer added to the push-out distance (0.1)
PUSH_BUFFER == 100

\* Inventory: [Option<ItemStack>; 28]
INVENTORY_SLOTS == 28

(***************************************************************************)
(* Components                                                              *)
(***************************************************************************)
NoDestination == [has |-> FALSE, target |-> ZERO]

Destination(t) == [has |-> TRUE, target |-> t]

NoStuckTimer == [has |-> FALSE, timer |-> 0, last_position |-> ZERO]

\* StuckTimer { last_position: current_pos, ..Default::default() }
StuckTimer(p) == [has |-> TRUE, timer |-> 0, last_position |-> p]

NoGatherTask == [has |-> FALSE, target |-> 0, elapsed |-> 0, period |-> 0, state |-> "None"]

NoItem == [id |-> "None", qty |-> 0]

\* ItemStack::new
ItemStack(id, qty) == [id |-> id, qty |-> qty]

\* Inventory::new(): 28 empty slots
EmptyInventory == [i \in 1..INVENTORY_SLOTS |-> NoItem]

\* UnitCollision of the spawned characters, or none
NoCollision == [has |-> FALSE, radius |-> 0, allow_friendly_overlap |-> FALSE]

UnitCollision(r, overlap) == [has |-> TRUE, radius |-> r, allow_friendly_overlap |-> overlap]

\* a controllable unit as spawned by setup: standing, no orders, empty inventory
NewUnit(p, col) ==
    [pos |-> p, moving |-> FALSE, dest |-> NoDestination, stuck |-> NoStuckTimer,
     primary |-> FALSE, task |-> NoGatherTask, inv |-> EmptyInventory, collision |-> col]

(***************************************************************************)
(* Grid                                                                    *)
(***************************************************************************)
\* movement.rs snap_to_grid: y pinned to 0.1
snap_to_grid(p) == Vec(RoundGrid(p.x), GROUND_Y, RoundGrid(p.z))

\* input.rs and gathering.rs snap_to_grid: y preserved
snap_to_grid_keep_y(p) == Vec(RoundGrid(p.x), p.y, RoundGrid(p.z))

\* the 20 offsets of generate_formation_alternatives, in the order of the vec![]
FormationOffsets ==
    << <<1, 0>>, <<-1, 0>>, <<0, 1>>, <<0, -1>>,
       <<1, 1>>, <<-1, 1>>, <<1, -1>>, <<-1, -1>>,
       <<2, 0>>, <<-2, 0>>, <<0, 2>>, <<0, -2>>,
       <<2, 1>>, <<1, 2>>, <<-2, 1>>, <<-1, 2>>,
       <<2, -1>>, <<1, -2>>, <<-2, -1>>, <<-1, -2>> >>

UnsortedAlternatives(target) ==
    [i \in 1..Len(FormationOffsets) |->
        Add(target, Vec(FormationOffsets[i][1] * GRID_SIZE, 0, FormationOffsets[i][2] * GRID_SIZE))]

\* the order of a sort_by comparator that compares a first key and, when the
\* first keys are equal, a second key
KeyLess(a, b) == a.k1 < b.k1 \/ (a.k1 = b.k1 /\ a.k2 < b.k2)

\* x inserted into the sorted sequence after every element that is not greater
RECURSIVE InsertStable(_, _, _)
InsertStable(sorted, x, i) ==
    IF i > Len(sorted) THEN Append(sorted, x)
    ELSE IF KeyLess(x, sorted[i])
    THEN SubSeq(sorted, 1, i - 1) \o <<x>> \o SubSeq(sorted, i, Len(sorted))
    ELSE InsertStable(sorted, x, i + 1)

RECURSIVE SortFrom(_, _, _)
SortFrom(s, i, acc) ==
    IF i > Len(s) THEN acc ELSE SortFrom(s, i + 1, InsertStable(acc, s[i], 1))

\* slice::sort_by (a stable sort) of a sequence of records [k1, k2, v]
StableSort(s) == SortFrom(s, 1, <<>>)

\* a faulty comparator: distance to the unit's current position first, then
\* distance to the target
AlternativeKeysByPosition(target, current_pos, a) ==
    [k1 |-> Dist2(current_pos, a), k2 |-> Dist2(target, a), v |-> a]

\* the keys of the comparator of alternatives.sort_by: distance to the target,
\* then distance to the unit's current position
AlternativeKeys(target, current_pos, a) ==
    [k1 |-> Dist2(target, a), k2 |-> Dist2(current_pos, a), v |-> a]

generate_formation_alternatives(target, current_pos) ==
    LET unsorted == UnsortedAlternatives(target)
        sorted   == StableSort([i \in 1..Len(unsorted) |->
                                   AlternativeKeys(target, current_pos, unsorted[i])])
    IN  [i \in 1..Len(sorted) |-> sorted[i].v]

(***************************************************************************)
(* move_units, first half: destination arbitration                         *)
(***************************************************************************)
\* Query<.., &Destination, .., With<Moving>>
MovingUnits(us) == {u \in DOMAIN us : us[u].moving /\ us[u].dest.has}

\* Query<.., (With<Controllable>, Without<Moving>)>
StationaryUnits(us) == {u \in DOMAIN us : ~us[u].moving}

\* every order in which a query may iterate over the set S
IterationOrders(S) ==
    {s \in [1..Cardinality(S) -> S] : \A i, j \in 1..Cardinality(S) : i # j => s[i] # s[j]}

\* occupied_destinations: the grid cells of the stationary units
OccupiedDestinations(us) == {snap_to_grid(us[u].pos) : u \in StationaryUnits(us)}

\* target_pos of a moving unit: its destination at the unit's own height
TargetPos(unit) == Vec(unit.dest.target.x, unit.pos.y, unit.dest.target.z)

\* the keys of the comparator of unit_data.sort_by: primary first, then nearer
\* to the target
UnitKeys(us, u) ==
    [k1 |-> IF us[u].primary THEN 0 ELSE 1,
     k2 |-> Dist2(us[u].pos, TargetPos(us[u])),
     v  |-> u]

\* unit_data after the sort, as the sequence of its entities
SortUnitData(us, order) ==
    LET sorted == StableSort([i \in 1..Len(order) |-> UnitKeys(us, order[i])])
    IN  [i \in 1..Len(sorted) |-> sorted[i].v]

\* !assigned_destinations.iter().any(|&occupied_pos| occupied_pos.distance(cell) < 0.1)
CellAvailable(assigned, cell) ==
    \A o \in assigned : ~(Dist2(o, cell) < CELL_EPSILON * CELL_EPSILON)

\* the alternative claimed by the loop over nearby_positions: the first available
\* one, or 0 when there is none
FirstAvailable(assigned, alts) ==
    LET free == {k \in 1..Len(alts) : CellAvailable(assigned, alts[k])}
    IN  IF free = {} THEN 0 ELSE CHOOSE k \in free : \A m \in free : k <= m

\* one iteration of the assignment loop for unit u
AssignOne(us, u, acc) ==
    LET current_pos == us[u].pos
        grid_target == snap_to_grid(TargetPos(us[u]))
    IN  IF CellAvailable(acc.assigned, grid_target)
        THEN [assigned |-> acc.assigned \cup {grid_target},
              final    |-> [acc.final EXCEPT ![u] = grid_target],
              stay     |-> acc.stay]
        ELSE LET alts == generate_formation_alternatives(grid_target, current_pos)
                 k    == FirstAvailable(acc.assigned, alts)
             IN  IF k # 0
                 THEN [assigned |-> acc.assigned \cup {alts[k]},
                       final    |-> [acc.final EXCEPT ![u] = alts[k]],
                       stay     |-> acc.stay]
                 ELSE [assigned |-> acc.assigned,
                       final    |-> [acc.final EXCEPT ![u] = snap_to_grid(current_pos)],
                       stay     |-> acc.stay \cup {u}]

RECURSIVE AssignLoop(_, _, _, _)
AssignLoop(us, sorted, i, acc) ==
    IF i > Len(sorted) THEN acc
    ELSE AssignLoop(us, sorted, i + 1, AssignOne(us, sorted[i], acc))

\* unit_final_destinations (final), the units that found no cell (stay) and the
\* cells claimed (assigned), for the moving units iterated in the given order
Arbitrate(us, order) ==
    AssignLoop(us, SortUnitData(us, order), 1,
               [assigned |-> OccupiedDestinations(us),
                final    |-> [u \in MovingUnits(us) |-> ZERO],
                stay     |-> {}])

(***************************************************************************)
(* move_units, second half: integration                                    *)
(***************************************************************************)
\* unwrap_or(Vec3::new(0.8, 0.5, 0.8)): the size of an obstacle without CollisionSize
DefaultObstacleSize == Vec(800, 500, 800)

\* a resource node that is still an entity of the world
Spawned(node) == ~node.despawned

\* the static obstacles in iteration order: the boxes, then the resource nodes
StaticObstacles(bs, ns) ==
    LET live == SelectSeq(ns, Spawned)
    IN  [i \in 1..(Len(bs) + Len(live)) |->
            IF i <= Len(bs) THEN [pos |-> bs[i].pos, size |-> DefaultObstacleSize]
            ELSE [pos |-> live[i - Len(bs)].pos, size |-> live[i - Len(bs)].size]]

\* obstacle_radius = (size.x + size.z) * 0.25
ObstacleRadius(size) == (size.x + size.z) \div 4

\* collision.map(|c| c.radius).unwrap_or(0.3)
UnitRadius(unit) == IF unit.collision.has THEN unit.collision.radius ELSE DEFAULT_UNIT_RADIUS

\* all_unit_positions: the stationary units and the moving units, each with its
\* position and radius; self is the entity of a moving unit, 0 the placeholder
AllUnitPositions(us) ==
    {[entity |-> IF us[u].moving THEN u ELSE 0, id |-> u, pos |-> us[u].pos,
      radius |-> UnitRadius(us[u])] : u \in StationaryUnits(us) \cup MovingUnits(us)}

\* the final destination at the unit's height
FlatDestination(current_pos, final_destination) ==
    Vec(final_destination.x, current_pos.y, final_destination.z)

\* index of the first obstacle the desired position collides with, or 0
FirstCollision(obs, desired_position, unit_radius) ==
    LET hit == {i \in 1..Len(obs) :
                  LET reach == unit_radius + ObstacleRadius(obs[i].size)
                  IN  Dist2(desired_position, obs[i].pos) < reach * reach}
    IN  IF hit = {} THEN 0 ELSE CHOOSE i \in hit : \A j \in hit : i <= j

\* the pushed position is farther from the target than the current position:
\* the unit tries to slide around the obstacle
Slides(obstacle, current_pos, desired_position, target, unit_radius) ==
    LET push_direction == NormalizeOrZero(Sub(desired_position, obstacle.pos))
        safe_distance  == unit_radius + ObstacleRadius(obstacle.size) + PUSH_BUFFER
        pushed         == Add(obstacle.pos, Scale(push_direction, safe_distance))
    IN  Dist2(pushed, target) > Dist2(current_pos, target)

\* the two slide options are equally far from the target: the target lies on
\* the line from the unit through the obstacle's centre (seen from above), so
\* which of slide_option1.distance(target_3d) and
\* slide_option2.distance(target_3d) is smaller is decided by the rounding of
\* the f32 arithmetic
SlideTied(obstacle, current_pos, target) ==
    (target.x - current_pos.x) * (obstacle.pos.z - current_pos.z)
        = (target.z - current_pos.z) * (obstacle.pos.x - current_pos.x)

\* the position after the obstacle check of lines 184-233; tie (1 or 2) is the
\* slide option taken when the two are equally far from the target
ObstaclePosition(obs, current_pos, desired_position, target, unit_radius, move_distance, tie) ==
    LET i == FirstCollision(obs, desired_position, unit_radius)
    IN  IF i = 0 THEN desired_position
        ELSE
          LET obstacle_center == obs[i].pos
              reach           == unit_radius + ObstacleRadius(obs[i].size)
              push_direction  == NormalizeOrZero(Sub(desired_position, obstacle_center))
              safe_distance   == reach + PUSH_BUFFER
              pushed          == Add(obstacle_center, Scale(push_direction, safe_distance))
          IN  IF Dist2(pushed, target) > Dist2(current_pos, target)
              THEN
                LET to_obstacle   == NormalizeOrZero(Sub(obstacle_center, current_pos))
                    perpendicular == Vec(-to_obstacle.z, 0, to_obstacle.x)
                    slide_option1 == Add(current_pos, Scale(perpendicular, move_distance))
                    slide_option2 == Sub(current_pos, Scale(perpendicular, move_distance))
                    slide         == IF SlideTied(obs[i], current_pos, target)
                                     THEN (IF tie = 1 THEN slide_option1 ELSE slide_option2)
                                     ELSE IF Dist2(slide_option1, target) < Dist2(slide_option2, target)
                                     THEN slide_option1 ELSE slide_option2
                IN  IF Dist2(slide, obstacle_center) < reach * reach
                    THEN current_pos
                    ELSE slide
              ELSE pushed

\* the units whose circle overlaps the unit at final_position (lines 243-256)
Overlapping(all, u, final_position, unit_radius) ==
    {o \in all :
        /\ o.entity # u
        /\ Dist2(final_position, o.pos) < (unit_radius + o.radius) * (unit_radius + o.radius)
        /\ Dist2(final_position, o.pos) > MOVEMENT_THRESHOLD * MOVEMENT_THRESHOLD}

\* the sum of the v fields of a set of records
RECURSIVE SumVec(_)
SumVec(S) ==
    IF S = {} THEN ZERO
    ELSE LET e == CHOOSE e \in S : TRUE IN Add(e.v, SumVec(S \ {e}))

\* the position after the friendly-unit nudging of lines 235-273
FriendlyPosition(all, unit, u, desired_position, final_position) ==
    IF ~(unit.collision.has /\ unit.collision.allow_friendly_overlap) THEN final_position
    ELSE
      LET unit_radius == UnitRadius(unit)
          hits        == Overlapping(all, u, final_position, unit_radius)
          push(o)     == LET push_dir == NormalizeOrZero(Sub(final_position, o.pos))
                             overlap  == unit_radius + o.radius - Dist(final_position, o.pos)
                         IN  Scale(push_dir, (overlap * 3) \div 10)
      IN  IF hits = {} THEN final_position
          ELSE
            LET friendly_push == SumVec({[id |-> o.id, v |-> push(o)] : o \in hits})
                n             == Cardinality(hits)
                avg_push      == Vec(RDiv(friendly_push.x, n), RDiv(friendly_push.y, n),
                                     RDiv(friendly_push.z, n))
                max_push_distance == unit_radius \div 2
            IN  IF Dist2(avg_push, ZERO) > max_push_distance * max_push_distance
                THEN Add(desired_position, Scale(NormalizeOrZero(avg_push), max_push_distance))
                ELSE Add(final_position, avg_push)

\* the unit is in transit and faces two slide options equally far from its target
FacesTie(us, u, final_destination, step_dt, obs) ==
    LET unit          == us[u]
        current_pos   == unit.pos
        target        == FlatDestination(current_pos, final_destination)
        direction     == NormalizeOrZero(Sub(target, current_pos))
        desired_position == Add(current_pos, Scale(direction, MOVE_SPEED * step_dt))
        i             == FirstCollision(obs, desired_position, UnitRadius(unit))
    IN  /\ unit.stuck.has
        /\ Dist2(current_pos, target) > ARRIVAL_THRESHOLD * ARRIVAL_THRESHOLD
        /\ i # 0
        /\ Slides(obs[i], current_pos, desired_position, target, UnitRadius(unit))
        /\ SlideTied(obs[i], current_pos, target)

\* the position the unit would be written this tick when it is in transit
NewPosition(us, u, final_destination, step_dt, obs, tie) ==
    LET unit          == us[u]
        current_pos   == unit.pos
        target        == FlatDestination(current_pos, final_destination)
        direction     == NormalizeOrZero(Sub(target, current_pos))
        move_distance == MOVE_SPEED * step_dt
        desired_position == Add(current_pos, Scale(direction, move_distance))
        after_obstacle == ObstaclePosition(obs, current_pos, desired_position, target,
                                           UnitRadius(unit), move_distance, tie)
    IN  FriendlyPosition(AllUnitPositions(us), unit, u, desired_position, after_obstacle)

\* distance <= arrival_threshold
Arrived(current_pos, final_destination) ==
    Dist2(current_pos, FlatDestination(current_pos, final_destination))
        <= ARRIVAL_THRESHOLD * ARRIVAL_THRESHOLD

\* current_pos.distance(new_position) > movement_threshold
MadeProgress(current_pos, new_position) ==
    Dist2(current_pos, new_position) > MOVEMENT_THRESHOLD * MOVEMENT_THRESHOLD

\* a faulty stuck check: the order is cancelled when the timer reaches the threshold
StuckAtThreshold(timer) == timer >= STUCK_THRESHOLD

\* stuck_timer.timer > stuck_timer.stuck_threshold
StuckTooLong(timer) == timer > STUCK_THRESHOLD

\* the body of the loop over moving_units.iter_mut() for unit u, with the
\* commands it queues applied
MoveOne(us, u, final_destination, step_dt, obs, tie) ==
    LET unit        == us[u]
        current_pos == unit.pos
    IN  IF Arrived(current_pos, final_destination)
        THEN [unit EXCEPT !.pos = FlatDestination(current_pos, final_destination),
                          !.moving = FALSE, !.dest = NoDestination, !.stuck = NoStuckTimer]
        ELSE IF ~unit.stuck.has
        THEN [unit EXCEPT !.stuck = StuckTimer(current_pos)]
        ELSE
          LET new_position == NewPosition(us, u, final_destination, step_dt, obs, tie)
          IN  IF MadeProgress(current_pos, new_position)
              THEN [unit EXCEPT !.pos = new_position,
                                !.stuck = [has |-> TRUE, timer |-> 0, last_position |-> new_position]]
              ELSE IF StuckTooLong(unit.stuck.timer + step_dt)
              THEN [unit EXCEPT !.moving = FALSE, !.dest = NoDestination, !.stuck = NoStuckTimer]
              ELSE [unit EXCEPT !.pos = new_position, !.stuck.timer = @ + step_dt]

\* the moving units whose slide options are equally far from their target
TiedUnits(us, arb, step_dt, obs) ==
    {u \in MovingUnits(us) : FacesTie(us, u, arb.final[u], step_dt, obs)}

\* the units after move_units, given the arbitration result and the slide
\* option each tied unit takes
MovedUnits(us, arb, step_dt, obs, ties) ==
    [u \in DOMAIN us |->
        IF u \in MovingUnits(us)
        THEN MoveOne(us, u, arb.final[u], step_dt, obs, IF u \in DOMAIN ties THEN ties[u] ELSE 1)
        ELSE us[u]]

\* maintain_ground_clearance
GroundClearance(us) ==
    [u \in DOMAIN us |-> IF us[u].pos.y < GROUND_Y THEN [us[u] EXCEPT !.pos.y = GROUND_Y] ELSE us[u]]

(***************************************************************************)
(* Inventory                                                               *)
(***************************************************************************)
Min(a, b) == IF a < b THEN a ELSE b

\* the first loop of add_items without the limit: all that remains goes on the
\* first stack of the item
RECURSIVE TopUpUnbounded(_, _, _, _)
TopUpUnbounded(st, i, item_id, max_stack) ==
    IF i > Len(st.slots) \/ st.remaining = 0 THEN st
    ELSE IF st.slots[i].id = item_id
         THEN [slots     |-> [st.slots EXCEPT ![i].qty = @ + st.remaining],
               remaining |-> 0]
         ELSE TopUpUnbounded(st, i + 1, item_id, max_stack)

\* first loop of add_items from slot i on: top up the stacks of item_id;
\* st = [slots, remaining]
RECURSIVE TopUp(_, _, _, _)
TopUp(st, i, item_id, max_stack) ==
    IF i > Len(st.slots) \/ st.remaining = 0 THEN st
    ELSE LET stack == st.slots[i]
         IN  IF stack.id # "None" /\ stack.id = item_id /\ stack.qty < max_stack
             THEN LET can_add == Min(max_stack - stack.qty, st.remaining)
                  IN  TopUp([slots     |-> [st.slots EXCEPT ![i].qty = @ + can_add],
                             remaining |-> st.remaining - can_add],
                            i + 1, item_id, max_stack)
             ELSE TopUp(st, i + 1, item_id, max_stack)

\* second loop of add_items from slot i on: new stacks in the empty slots
RECURSIVE FillEmpty(_, _, _, _)
FillEmpty(st, i, item_id, max_stack) ==
    IF i > Len(st.slots) \/ st.remaining = 0 THEN st
    ELSE IF st.slots[i].id = "None"
         THEN LET stack_size == Min(st.remaining, max_stack)
              IN  FillEmpty([slots     |-> [st.slots EXCEPT ![i] = ItemStack(item_id, stack_size)],
                             remaining |-> st.remaining - stack_size],
                            i + 1, item_id, max_stack)
         ELSE FillEmpty(st, i + 1, item_id, max_stack)

\* add_items with its two loops in the other order: empty slots first
AddItemsEmptyFirst(slots, item_id, qty, max_stack) ==
    LET st == TopUp(FillEmpty([slots |-> slots, remaining |-> qty], 1, item_id, max_stack),
                    1, item_id, max_stack)
    IN  [slots |-> st.slots, added |-> qty - st.remaining]

\* Inventory::add_items: the slots afterwards and the number of items added
add_items(slots, item_id, qty, max_stack) ==
    LET st == FillEmpty(TopUp([slots |-> slots, remaining |-> qty], 1, item_id, max_stack),
                        1, item_id, max_stack)
    IN  [slots |-> st.slots, added |-> qty - st.remaining]

\* a faulty is_full: an inventory never counts as full
NeverFull(slots) == FALSE

\* Inventory::is_full
is_full(slots) == \A i \in 1..Len(slots) : slots[i].id # "None"

\* Inventory::used_slots
used_slots(slots) == Cardinality({i \in 1..Len(slots) : slots[i].id # "None"})

RECURSIVE SumQty(_, _, _)
SumQty(slots, item_id, i) ==
    IF i > Len(slots) THEN 0
    ELSE (IF slots[i].id = item_id THEN slots[i].qty ELSE 0) + SumQty(slots, item_id, i + 1)

\* Inventory::count_item
count_item(slots, item_id) == SumQty(slots, item_id, 1)

\* impl From<ResourceKind> for ItemId
ItemOf(kind) ==
    CASE kind = "Copper" -> "CopperOre"
      [] kind = "Tin"    -> "TinOre"
      [] kind = "Wood"   -> "Logs"

\* ItemId::max_stack_size: 1 for every item
max_stack_size(item_id) == 1

(***************************************************************************)
(* Gathering                                                               *)
(***************************************************************************)
\* 1.0 / gather_rate, in milliseconds; gather_rate is in thousandths per second
TimerPeriod(gather_rate) == (GRID_SIZE * 1000) \div gather_rate

\* GatherTask::new: Walking, with a repeating timer of period 1 / gather_rate
GatherTask(target, gather_rate) ==
    [has |-> TRUE, target |-> target, elapsed |-> 0, period |-> TimerPeriod(gather_rate),
     state |-> "Walking"]

\* resource_nodes.get(resource_entity) succeeds
ResolvesNode(ns, r) == r \in DOMAIN ns /\ ~ns[r].despawned

\* units.get_mut(unit_entity) succeeds
ResolvesUnit(us, u) == u \in DOMAIN us

\* a faulty issue_gather_task: the is_full check is missing
IssueOneAnyInventory(us, ns, u, r) ==
    IF ~ResolvesNode(ns, r) THEN us
    ELSE IF ~ResolvesUnit(us, u) THEN us
    ELSE [us EXCEPT ![u].task   = GatherTask(r, ns[r].gather_rate),
                    ![u].dest   = Destination(snap_to_grid_keep_y(ns[r].pos)),
                    ![u].moving = TRUE]

\* issue_gather_task for one GatherEvent, with the commands it queues applied
IssueOne(us, ns, u, r) ==
    IF ~ResolvesNode(ns, r) THEN us
    ELSE IF ~ResolvesUnit(us, u) THEN us
    ELSE IF is_full(us[u].inv) THEN us
    ELSE [us EXCEPT ![u].task   = GatherTask(r, ns[r].gather_rate),
                    ![u].dest   = Destination(snap_to_grid_keep_y(ns[r].pos)),
                    ![u].moving = TRUE]

\* issue_gather_task over the events of one click: one event per selected unit
RECURSIVE IssueAll(_, _, _, _, _)
IssueAll(us, ns, sel, r, i) ==
    IF i > Len(sel) THEN us
    ELSE IssueAll(IssueOne(us, ns, sel[i], r), ns, sel, r, i + 1)

\* a faulty issue_gather_task: an event that does not resolve ends the loop
\* (return instead of continue)
RECURSIVE IssueEventsAborting(_, _, _, _)
IssueEventsAborting(us, ns, events, i) ==
    IF i > Len(events) THEN us
    ELSE IF ~ResolvesNode(ns, events[i].resource) \/ ~ResolvesUnit(us, events[i].unit) THEN us
    ELSE IssueEventsAborting(IssueOne(us, ns, events[i].unit, events[i].resource),
                             ns, events, i + 1)

\* issue_gather_task over the GatherEvents read in one run of the system
RECURSIVE IssueEvents(_, _, _, _)
IssueEvents(us, ns, events, i) ==
    IF i > Len(events) THEN us
    ELSE IssueEvents(IssueOne(us, ns, events[i].unit, events[i].resource), ns, events, i + 1)

\* distance <= resource_node.gather_radius
InRange(unit, node) == Dist2(unit.pos, node.pos) <= node.gather_radius * node.gather_radius

\* a faulty gather_amount: everything the node has left, as a u16
GatherAmountWhole(remaining) == remaining % 65536

\* 1_u16.min(resource_node.remaining as u16)
GatherAmount(remaining) == Min(1, remaining % 65536)

\* a faulty debit: the amount added is taken from the node twice
DebitTwice(remaining, added) ==
    IF 2 * added > remaining THEN 0 ELSE remaining - 2 * added

\* a faulty debit: a harvest that leaves the node's counter as it was
DebitNothing(remaining, added) == remaining

\* resource_node.remaining.saturating_sub(added as u32)
Debit(remaining, added) == IF added > remaining THEN 0 ELSE remaining - added

\* a faulty repeating timer: the time past the period is dropped
TimerElapsedRestart(task, delta) ==
    IF task.elapsed + delta >= task.period THEN 0 ELSE task.elapsed + delta

\* timer.tick(delta) of a repeating timer: the new elapsed time
TimerElapsed(task, delta) == (task.elapsed + delta) % task.period

\* timer.just_finished() after timer.tick(delta)
TimerJustFinished(task, delta) == task.elapsed + delta >= task.period

\* the Harvesting arm past the range, fullness and depletion checks: tick the
\* timer and harvest; st = [us, ns, events]
Harvest(st, u, delta) ==
    LET unit == st.us[u]
        node == st.ns[unit.task.target]
        ticked == [st EXCEPT !.us[u].task.elapsed = TimerElapsed(unit.task, delta)]
        gather_amount == GatherAmount(node.remaining)
    IN  IF ~TimerJustFinished(unit.task, delta) THEN ticked
        ELSE IF ~(gather_amount > 0 /\ node.remaining > 0) THEN ticked
        ELSE
          LET item_id == ItemOf(node.kind)
              res     == add_items(unit.inv, item_id, gather_amount, max_stack_size(item_id))
          IN  IF res.added > 0
              THEN [ticked EXCEPT !.us[u].inv = res.slots,
                                  !.ns[unit.task.target].remaining = Debit(@, res.added),
                                  !.ns[unit.task.target].given = @ + res.added,
                                  !.events = @ \cup {u}]
              ELSE ticked

\* a faulty Walking arm: the unit in range starts harvesting but keeps Moving
WalkingArmKeepsMoving(st, u) ==
    LET unit == st.us[u]
    IN  IF InRange(unit, st.ns[unit.task.target])
        THEN [st EXCEPT !.us[u].task.state = "Harvesting"]
        ELSE st

\* the arm GatherState::Walking
WalkingArm(st, u) ==
    LET unit == st.us[u]
    IN  IF InRange(unit, st.ns[unit.task.target])
        THEN [st EXCEPT !.us[u].task.state = "Harvesting", !.us[u].moving = FALSE]
        ELSE st

\* a faulty Harvesting arm: the depletion check is missing
HarvestingArmIgnoresDepletion(st, u, delta) ==
    LET unit == st.us[u]
        node == st.ns[unit.task.target]
    IN  IF ~InRange(unit, node)
        THEN [st EXCEPT !.us[u].task.state = "Walking", !.us[u].moving = TRUE]
        ELSE IF is_full(unit.inv)
        THEN [st EXCEPT !.us[u].task.state = "Full"]
        ELSE Harvest(st, u, delta)

\* a faulty Harvesting arm: the range is checked after the timer has ticked
\* and the harvest is done
HarvestingArmLateRangeCheck(st, u, delta) ==
    LET unit == st.us[u]
        node == st.ns[unit.task.target]
    IN  IF ~InRange(unit, node)
        THEN [Harvest(st, u, delta) EXCEPT !.us[u].task.state = "Walking", !.us[u].moving = TRUE]
        ELSE IF is_full(unit.inv)
        THEN [st EXCEPT !.us[u].task.state = "Full"]
        ELSE IF node.remaining = 0
        THEN [st EXCEPT !.us[u].task = NoGatherTask]
        ELSE Harvest(st, u, delta)

\* the arm GatherState::Harvesting
HarvestingArm(st, u, delta) ==
    LET unit == st.us[u]
        node == st.ns[unit.task.target]
    IN  IF ~InRange(unit, node)
        THEN [st EXCEPT !.us[u].task.state = "Walking", !.us[u].moving = TRUE]
        ELSE IF is_full(unit.inv)
        THEN [st EXCEPT !.us[u].task.state = "Full"]
        ELSE IF node.remaining = 0
        THEN [st EXCEPT !.us[u].task = NoGatherTask]
        ELSE Harvest(st, u, delta)

\* a faulty Full arm: the unit goes back to harvesting
FullArmResuming(st, u) == [st EXCEPT !.us[u].task.state = "Harvesting"]

\* the arm GatherState::Full: nothing happens
FullArm(st, u) == st

\* the body of the loops of process_gathering_state_machine for unit u, with
\* the commands it queues applied
GatherOne(st, u, delta) ==
    LET unit == st.us[u]
    IN  IF ~ResolvesNode(st.ns, unit.task.target)
        THEN [st EXCEPT !.us[u].task = NoGatherTask]
        ELSE CASE unit.task.state = "Walking"    -> WalkingArm(st, u)
               [] unit.task.state = "Harvesting" -> HarvestingArm(st, u, delta)
               [] unit.task.state = "Full"       -> FullArm(st, u)

\* a faulty gathering pass: every unit is processed against the nodes as they
\* were when the pass began, and a node ends as one of the units that changed
\* it left it
GatherAllSnapshot(st, order, i, delta) ==
    LET one(u) == GatherOne(st, u, delta)
        U      == {order[k] : k \in DOMAIN order}
    IN  [us     |-> [u \in DOMAIN st.us |-> IF u \in U THEN one(u).us[u] ELSE st.us[u]],
         ns     |-> [n \in DOMAIN st.ns |->
                        IF \E u \in U : one(u).ns[n] # st.ns[n]
                        THEN one(CHOOSE u \in U : one(u).ns[n] # st.ns[n]).ns[n]
                        ELSE st.ns[n]],
         events |-> UNION {one(u).events : u \in U}]

RECURSIVE GatherAll(_, _, _, _)
GatherAll(st, order, i, delta) ==
    IF i > Len(order) THEN st
    ELSE GatherAll(GatherOne(st, order[i], delta), order, i + 1, delta)

\* Query<(Entity, &Transform, &mut GatherTask, &mut Inventory), With<Controllable>>
GatheringUnits(us) == {u \in DOMAIN us : us[u].task.has}

(***************************************************************************)
(* Move orders                                                             *)
(***************************************************************************)
\* adjacent_offsets of calculate_formation_position
AdjacentOffsets ==
    << <<1, 0>>, <<-1, 0>>, <<0, 1>>, <<0, -1>>,
       <<1, 1>>, <<-1, 1>>, <<1, -1>>, <<-1, -1>>,
       <<2, 0>>, <<-2, 0>>, <<0, 2>>, <<0, -2>>,
       <<2, 1>>, <<-2, 1>>, <<1, 2>>, <<-1, 2>> >>

\* calculate_formation_position; unit_index counts from 0
calculate_formation_position(base_destination, unit_index, total_units) ==
    IF total_units <= 1 \/ unit_index = 0 THEN base_destination
    ELSE LET offset == AdjacentOffsets[((unit_index - 1) % Len(AdjacentOffsets)) + 1]
         IN  Vec(base_destination.x + offset[1] * GRID_SIZE, base_destination.y,
                 base_destination.z + offset[2] * GRID_SIZE)

\* the destination of the unit at position index (from 0) of the selection
IndividualDestination(base_destination, index, num_selected) ==
    IF num_selected = 1 THEN base_destination
    ELSE snap_to_grid_keep_y(calculate_formation_position(base_destination, index, num_selected))

\* the loop body of handle_movement_command for the selected unit at sel[i]
CommandOne(us, sel, i, base_destination) ==
    [us EXCEPT ![sel[i]].dest    = Destination(IndividualDestination(base_destination, i - 1, Len(sel))),
               ![sel[i]].moving  = TRUE,
               ![sel[i]].primary = (Len(sel) > 1 /\ i = 1)]

RECURSIVE CommandAll(_, _, _, _)
CommandAll(us, sel, i, base_destination) ==
    IF i > Len(sel) THEN us
    ELSE CommandAll(CommandOne(us, sel, i, base_destination), sel, i + 1, base_destination)

(***************************************************************************)
(* Bounds of the model                                                     *)
(***************************************************************************)
\* external events (orders, despawns) in one run
MaxOrders == 2

\* frames simulated after an order; the tick counter stops counting here
MaxTicks == 7

(***************************************************************************)
(* The systems as actions.  One frame runs move_units, then                *)
(* maintain_ground_clearance, then process_gathering_state_machine; the    *)
(* input systems run between frames.  last records the system that ran     *)
(* last and the world it started from, ordered the last order given and    *)
(* the world it was given in; ticks counts the frames since the last       *)
(* order.                                                                  *)
(***************************************************************************)
Record(op, sel, arg, events) ==
    [op |-> op, units |-> units, nodes |-> nodes, sel |-> sel, arg |-> arg, events |-> events]

\* every ordering of every non-empty subset of S: the selected units as iterated
Selections(S) == UNION {IterationOrders(T) : T \in (SUBSET S) \ {{}}}

\* the orderings of Selections(S) that iterate the units in spawn order
SpawnOrderSelections(S) ==
    {sel \in Selections(S) : \A i, j \in DOMAIN sel : i < j => sel[i] < sel[j]}

\* handle_movement_command: a right click on the ground at cell base_destination
MoveOrder(sel, base_destination) ==
    /\ phase = "input"
    /\ orders < MaxOrders
    /\ units' = CommandAll(units, sel, 1, base_destination)
    /\ orders' = orders + 1
    /\ ticks' = 0
    /\ last' = Record("move_order", sel, base_destination, {})
    /\ ordered' = last'
    /\ UNCHANGED <<nodes, boxes, phase, dt, finalDest, max_stacks>>

\* handle_movement_command on a resource node, then issue_gather_task
GatherOrder(sel, r) ==
    /\ phase = "input"
    /\ orders < MaxOrders
    /\ units' = IssueAll(units, nodes, sel, r, 1)
    /\ orders' = orders + 1
    /\ ticks' = 0
    /\ last' = Record("gather_order", sel, r, {})
    /\ ordered' = last'
    /\ UNCHANGED <<nodes, boxes, phase, dt, finalDest, max_stacks>>

\* move_units in a frame of length d, the moving units iterated in the given
\* order; the tick counter stops counting at cap
MoveUnits(d, order, cap) ==
    /\ phase = "input"
    /\ LET arb == Arbitrate(units, order)
           obs == StaticObstacles(boxes, nodes)
       IN  /\ finalDest' = arb
           /\ \E ties \in [TiedUnits(units, arb, d, obs) -> {1, 2}] :
                  units' = MovedUnits(units, arb, d, obs, ties)
    /\ dt' = d
    /\ phase' = "ground"
    /\ ticks' = Min(ticks + 1, cap)
    /\ last' = Record("move_units", order, d, {})
    /\ UNCHANGED <<nodes, boxes, ordered, orders, max_stacks>>

\* maintain_ground_clearance
MaintainGroundClearance ==
    /\ phase = "ground"
    /\ units' = GroundClearance(units)
    /\ phase' = "gather"
    /\ last' = Record("ground", <<>>, 0, {})
    /\ UNCHANGED <<nodes, boxes, dt, finalDest, ordered, orders, ticks, max_stacks>>

\* process_gathering_state_machine, the gathering units iterated in the given order
ProcessGathering(order) ==
    /\ phase = "gather"
    /\ LET st == GatherAll([us |-> units, ns |-> nodes, events |-> {}], order, 1, dt)
       IN  /\ units' = st.us
           /\ nodes' = st.ns
           /\ last' = Record("gathering", order, dt, st.events)
    /\ phase' = "input"
    /\ UNCHANGED <<boxes, dt, finalDest, ordered, orders, ticks, max_stacks>>

\* a resource node is despawned by the game outside the systems modelled here;
\* it counts as one of the run's orders
ResourceDisappears(r) ==
    /\ phase = "input"
    /\ orders < MaxOrders
    /\ r \in DOMAIN nodes
    /\ ~nodes[r].despawned
    /\ nodes' = [nodes EXCEPT ![r].despawned = TRUE]
    /\ orders' = orders + 1
    /\ ticks' = 0
    /\ last' = Record("despawn", <<>>, r, {})
    /\ UNCHANGED <<units, boxes, phase, dt, finalDest, ordered, max_stacks>>

\* one frame's systems, the frame's length drawn from D
Frame(D, cap) ==
    \/ \E d \in D : \E order \in IterationOrders(MovingUnits(units)) : MoveUnits(d, order, cap)
    \/ MaintainGroundClearance
    \/ \E order \in IterationOrders(GatheringUnits(units)) : ProcessGathering(order)

\* a frame may start: fewer than cap frames have run since the last order
MayTick(cap) == phase = "input" => ticks < cap

\* the frame lengths of a run at a steady frame rate drawn from D
Steady(D) == IF dt = 0 THEN D ELSE {dt}

(***************************************************************************)
(* Worlds                                                                  *)
(***************************************************************************)
\* a cell centre on the ground plane (a ground click is at height 0)
Cell(cx, cz) == Vec(cx * GRID_SIZE, 0, cz * GRID_SIZE)

\* the height at which setup spawns the characters (0.05)
SPAWN_Y == 50

\* a character of setup: grid aligned, collision radius 0.5, friendly overlap allowed
Character(cx, cz) == NewUnit(Vec(cx * GRID_SIZE, SPAWN_Y, cz * GRID_SIZE), UnitCollision(500, TRUE))

\* a copper rock of spawn_resources: 30 ore, 1.0 items per second, radius 1.5
CopperNode(cx, cz, remaining) ==
    [pos |-> Vec(cx * GRID_SIZE, 450, cz * GRID_SIZE), kind |-> "Copper",
     remaining |-> remaining, gather_rate |-> 1000, gather_radius |-> 1500,
     size |-> Vec(1100, 700, 1100), despawned |-> FALSE,
     initial |-> remaining, given |-> 0]

\* a tree of spawn_resources: 50 logs, 1.2 items per second, radius 1.5, its
\* centre 0.75 above the spawn height 0.1
TreeNode(cx, cz, remaining) ==
    [pos |-> Vec(cx * GRID_SIZE, 850, cz * GRID_SIZE), kind |-> "Wood",
     remaining |-> remaining, gather_rate |-> 1200, gather_radius |-> 1500,
     size |-> Vec(1200, 1500, 1200), despawned |-> FALSE,
     initial |-> remaining, given |-> 0]

\* an obstacle box of setup, centred 0.25 above the ground
Box(cx, cz) == [pos |-> Vec(cx * GRID_SIZE, 250, cz * GRID_SIZE)]

NoArbitration == [assigned |-> {}, final |-> <<>>, stay |-> {}]

\* the items of ItemId
ItemIds == {"CopperOre", "TinOre", "Logs"}

\* the world of the given units, nodes and boxes, where the callers of add_items
\* pass limits[item] as max_stack
InitLimited(us, ns, bs, limits) ==
    /\ max_stacks = limits
    /\ units = us
    /\ nodes = ns
    /\ boxes = bs
    /\ phase = "input"
    /\ dt = 0
    /\ finalDest = NoArbitration
    /\ orders = 0
    /\ ticks = 0
    /\ last = [op |-> "init", units |-> us, nodes |-> ns, sel |-> <<>>, arg |-> 0, events |-> {}]
    /\ ordered = last

\* the world as the game runs it: max_stack is ItemId::max_stack_size
InitWorld(us, ns, bs) == InitLimited(us, ns, bs, [item \in ItemIds |-> max_stack_size(item)])

\* a character carrying n copper ores
Carrying(unit, n) ==
    [unit EXCEPT !.inv = [i \in 1..INVENTORY_SLOTS |->
                             IF i <= n THEN ItemStack("CopperOre", 1) ELSE NoItem]]

(***************************************************************************)
(* Spec: two characters, one of them with one free inventory slot, a       *)
(* copper rock with two ores left and a box; move and gather orders at any *)
(* time, and the rock may be despawned at any time                         *)
(***************************************************************************)
\* tick lengths in milliseconds; the engine clamps a frame's delta to 250 ms
Dts == {250}

Init ==
    InitWorld(<<Character(0, 0), Carrying(Character(1, 1), 27)>>,
              <<CopperNode(0, 2, 2)>>, <<Box(2, 1)>>)

\* the cell a ground click lands on, beyond the box
ClickCells == {Cell(3, 2)}

Next ==
    \/ \E sel \in SpawnOrderSelections(DOMAIN units) : \E c \in ClickCells : MoveOrder(sel, c)
    \/ \E sel \in SpawnOrderSelections(DOMAIN units) : \E r \in DOMAIN nodes : GatherOrder(sel, r)
    \/ \E r \in DOMAIN nodes : ResourceDisappears(r)
    \/ MayTick(MaxTicks) /\ Frame(Dts, MaxTicks)

Spec == Init /\ [][Next]_vars

(***************************************************************************)
(* SpecArb: a crowd of characters standing on the cell at the origin and   *)
(* on all 20 formation alternatives around it, and two more characters     *)
(* that receive move orders                                                *)
(***************************************************************************)
\* the standing characters: one on the crowded cell, one on every alternative
Crowd ==
    <<Character(0, 0)>> \o
    [i \in 1..Len(FormationOffsets) |-> Character(FormationOffsets[i][1], FormationOffsets[i][2])]

\* the two characters that are given orders
Movers == {Len(Crowd) + 1, Len(Crowd) + 2}

InitArb == InitWorld(Crowd \o <<Character(4, 0), Character(6, 0)>>, <<>>, <<>>)

\* the crowded cell and the cell of the first mover
ArbCells == {Cell(0, 0), Cell(4, 0)}

NextArb ==
    \/ \E sel \in Selections(Movers) : \E c \in ArbCells : MoveOrder(sel, c)
    \/ MayTick(MaxTicks) /\ Frame(Dts, MaxTicks)

SpecArb == InitArb /\ [][NextArb]_vars

(***************************************************************************)
(* Destination arbitration                                                 *)
(***************************************************************************)
\* C1: after the arbitration pass of move_units no two moving units are
\* assigned the same final cell, not even a unit that found no free cell and
\* was assigned its own current cell, and no moving unit other than such a
\* unit is assigned the cell of a stationary unit.
ArbitrationConflictFree ==
    last.op = "move_units" =>
        LET M == MovingUnits(last.units)
        IN  /\ \A u, v \in M : u # v => finalDest.final[u] # finalDest.final[v]
            /\ \A u \in M \ finalDest.stay :
                   finalDest.final[u] \notin OccupiedDestinations(last.units)

(***************************************************************************)
(* Gathering                                                               *)
(***************************************************************************)
\* C2: a node's remaining counter never increases and never goes below 0, and
\* the items its harvesters received never exceed its initial remaining.
RemainingNeverGrows ==
    \A r \in DOMAIN nodes :
        /\ nodes[r].remaining >= 0
        /\ nodes[r].remaining <= last.nodes[r].remaining
        /\ nodes[r].given <= nodes[r].initial

\* the node was emptied by a harvest, its ores shared between its harvesters
LastOreTaken ==
    /\ last.op = "gathering"
    /\ last.events # {}
    /\ \E r \in DOMAIN nodes :
           /\ last.nodes[r].remaining > 0
           /\ nodes[r].remaining = 0
           /\ nodes[r].given = nodes[r].initial

\* every slot of the inventory holds a stack
EverySlotHolds(inv) == \A i \in 1..INVENTORY_SLOTS : inv[i].id # "None"

\* C3: an order replaces the unit's previous order: after a move order the
\* ordered units have no GatherTask, and after an accepted gather order they
\* have exactly the new GatherTask and the new Destination.
OrderReplacesOrder ==
    /\ last.op = "move_order" =>
           \A i \in DOMAIN last.sel : ~units[last.sel[i]].task.has
    /\ last.op = "gather_order" =>
           \A i \in DOMAIN last.sel :
               LET u == last.sel[i]
                   r == last.arg
               IN  ~EverySlotHolds(last.units[u].inv) /\ ~last.nodes[r].despawned =>
                       /\ units[u].task = [has |-> TRUE, target |-> r, elapsed |-> 0,
                                           period |-> 1000, state |-> "Walking"]
                       /\ units[u].dest = [has |-> TRUE,
                                           target |-> Vec(nodes[r].pos.x, nodes[r].pos.y,
                                                          nodes[r].pos.z)]
                       /\ units[u].moving

\* C4: a gather order for a unit whose 28 slots all hold a stack changes
\* nothing of the unit: its Moving flag, Destination, GatherTask and inventory
\* are as before the order.
FullInventoryOrderIsNoOp ==
    last.op = "gather_order" =>
        \A i \in DOMAIN last.sel :
            EverySlotHolds(last.units[last.sel[i]].inv) =>
                units[last.sel[i]] = last.units[last.sel[i]]

\* a gather order was given to a unit that is Full
FullUnitOrdered ==
    /\ last.op = "gather_order"
    /\ \E i \in DOMAIN last.sel :
           /\ EverySlotHolds(last.units[last.sel[i]].inv)
           /\ last.units[last.sel[i]].task.state = "Full"

\* the gathering pass took the task of unit u from Walking only to Harvesting
\* (in range), or removed it because its resource is invalid
WalkingStep(u) ==
    LET before == last.units[u].task
        after  == units[u].task
        node   == last.nodes[before.target]
    IN  \/ after.has /\ after.state = "Walking"
        \/ after.has /\ after.state = "Harvesting" /\ InRange(units[u], node)
        \/ ~after.has /\ node.despawned

\* the gathering pass took the task of unit u from Harvesting only to Walking
\* (out of range) or Full (inventory full), or removed it because its resource
\* is depleted or invalid
HarvestingStep(u) ==
    LET before == last.units[u].task
        after  == units[u].task
        node   == last.nodes[before.target]
    IN  \/ after.has /\ after.state = "Harvesting"
        \/ after.has /\ after.state = "Walking" /\ ~InRange(units[u], node)
        \/ after.has /\ after.state = "Full" /\ EverySlotHolds(last.units[u].inv)
        \/ ~after.has /\ (node.despawned \/ nodes[before.target].remaining = 0)

\* the tasks the gathering pass begins with, by state
TasksIn(state) == {u \in DOMAIN units : last.units[u].task.has /\ last.units[u].task.state = state}

\* C5 as stated: in the gathering pass a task changes state only from Walking
\* to Harvesting (in range), from Harvesting to Walking (out of range) or to
\* Full (inventory full), and is removed only from Walking (resource invalid)
\* or from Harvesting (depleted or invalid); a Full task never changes state
\* and is never removed.
FullHasNoWayOut ==
    last.op = "gathering" =>
        /\ \A u \in DOMAIN units : ~last.units[u].task.has => ~units[u].task.has
        /\ \A u \in TasksIn("Walking") : WalkingStep(u)
        /\ \A u \in TasksIn("Harvesting") : HarvestingStep(u)
        /\ \A u \in TasksIn("Full") : units[u].task = last.units[u].task

\* C5 amended: as C5, except that a Full task too is removed when its resource
\* is invalid; it never changes state and is never removed otherwise.
FullLeavesOnlyWhenInvalid ==
    last.op = "gathering" =>
        /\ \A u \in DOMAIN units : ~last.units[u].task.has => ~units[u].task.has
        /\ \A u \in TasksIn("Walking") : WalkingStep(u)
        /\ \A u \in TasksIn("Harvesting") : HarvestingStep(u)
        /\ \A u \in TasksIn("Full") :
               \/ units[u].task = last.units[u].task
               \/ ~units[u].task.has /\ last.nodes[last.units[u].task.target].despawned

\* the gathering pass ran over a Full task whose resource is still there
FullTaskPassedOver ==
    /\ last.op = "gathering"
    /\ \E u \in TasksIn("Full") :
           /\ ~last.nodes[last.units[u].task.target].despawned
           /\ units[u].task.state = "Full"

(***************************************************************************)
(* SpecHarvest: one character with an empty inventory next to a copper     *)
(* rock holding 30 ores is ordered to gather and is then left alone, at a  *)
(* steady frame rate                                                       *)
(***************************************************************************)
\* frames simulated after the gather order
HarvestTicks == 300

\* frame lengths in milliseconds
HarvestDts == {100, 150, 250}

InitHarvest == InitWorld(<<Character(0, 1)>>, <<CopperNode(0, 2, 30)>>, <<>>)

NextHarvest ==
    \/ orders = 0 /\ GatherOrder(<<1>>, 1)
    \/ orders = 1 /\ MayTick(HarvestTicks) /\ Frame(Steady(HarvestDts), HarvestTicks)

SpecHarvest == InitHarvest /\ [][NextHarvest]_vars

\* the whole 1-second periods that fit into the time harvested after frame
\* number k: the character is in range when the first gathering pass runs, so
\* its timer has run for k - 1 frames
PeriodsCompleted(k) == ((k - 1) * dt) \div 1000

\* C6: the character receives one ore per completed 1-second period until its
\* 28 slots are used; the rock then holds 2 ores, the pass after the 28th ore
\* turns the task Full, and from then on inventory and rock stay as they are.
HarvestFillsInventory ==
    LET unit  == units[1]
        items == Min(INVENTORY_SLOTS, PeriodsCompleted(ticks))
        full  == (ticks - 2) * dt >= INVENTORY_SLOTS * 1000
    IN  /\ phase = "input" /\ ticks >= 1 =>
               /\ used_slots(unit.inv) = items
               /\ count_item(unit.inv, "CopperOre") = items
               /\ nodes[1].remaining = 30 - items
               /\ unit.task.has
               /\ unit.task.state = IF full THEN "Full" ELSE "Harvesting"
        /\ unit.task.state = "Full" =>
               /\ used_slots(unit.inv) = INVENTORY_SLOTS
               /\ nodes[1].remaining = 2
               /\ unit.inv = last.units[1].inv

\* a gathering pass ran over the character after its task had turned Full
HarvestEnded ==
    /\ last.op = "gathering"
    /\ last.units[1].task.state = "Full"
    /\ units[1].task.state = "Full"
    /\ used_slots(units[1].inv) = INVENTORY_SLOTS
    /\ nodes[1].remaining = 2

(***************************************************************************)
(* SpecWalk: one character alone on flat ground, no obstacles, is given    *)
(* one move order and walks at a steady frame rate                         *)
(***************************************************************************)
\* frames simulated after the move order
WalkTicks == 1300

\* frame lengths in milliseconds: 250 and 100 frames per second, 10 frames per
\* second, and the longest frame the engine's clock reports
WalkDts == {4, 10, 100, 250}

\* the cells ordered to, at distances 1, 2.24 and 5 from the character
WalkCells == {Cell(1, 0), Cell(2, 1), Cell(5, 0)}

InitWalk == InitWorld(<<Character(0, 0)>>, <<>>, <<>>)

NextWalk ==
    \/ orders = 0 /\ \E c \in WalkCells : MoveOrder(<<1>>, c)
    \/ orders = 1 /\ MayTick(WalkTicks) /\ Frame(Steady(WalkDts), WalkTicks)

SpecWalk == InitWalk /\ [][NextWalk]_vars

\* a / b rounded up (a >= 0, b > 0)
CeilDiv(a, b) == (a + b - 1) \div b

\* the ticks granted to a walk of the ordered distance: twice the number of
\* steps of length MOVE_SPEED * dt the distance takes, one tick to attach the
\* stuck timer and one to arrive
WalkBound ==
    LET from == ordered.units[1].pos
        to   == Vec(ordered.arg.x, from.y, ordered.arg.z)
    IN  2 * CeilDiv(Dist(from, to), MOVE_SPEED * dt) + 2

\* C7: a unit ordered to a free cell with nothing in its way is never cancelled
\* short of the cell, and within a number of ticks proportional to
\* distance / (speed x dt) it stands on the cell without Destination, Moving
\* and StuckTimer, for every tick length.
WalkArrives ==
    LET unit == units[1]
        at_cell == unit.pos.x = ordered.arg.x /\ unit.pos.z = ordered.arg.z
    IN  orders = 1 /\ phase = "input" /\ ticks >= 1 =>
            /\ ~unit.moving => at_cell /\ ~unit.dest.has /\ ~unit.stuck.has
            /\ ticks >= WalkBound => ~unit.moving

(***************************************************************************)
(* SpecBox: two characters in a row with a box; a move order to the cell of *)
(* the box, after which the character nearer to the box may be ordered     *)
(* away at any time; frames of 250 ms                                      *)
(***************************************************************************)
\* frames simulated after the move order
BoxTicks == 16

InitBox == InitWorld(<<Character(0, 1), Character(1, 1)>>, <<>>, <<Box(2, 1)>>)

NextBox ==
    \/ orders = 0 /\ \E sel \in Selections(DOMAIN units) : MoveOrder(sel, Cell(2, 1))
    \/ orders = 1 /\ MoveOrder(<<2>>, Cell(0, 0))
    \/ orders >= 1 /\ MayTick(BoxTicks) /\ Frame(Dts, BoxTicks)

SpecBox == InitBox /\ [][NextBox]_vars

\* the code's distance test against an obstacle: the unit at pos, of the given
\* radius, is clear of the obstacle, short of slack thousandths
ClearOf(pos, radius, obstacle, slack) ==
    LET reach == radius + ObstacleRadius(obstacle.size) - slack
    IN  Dist2(pos, obstacle.pos) >= reach * reach

\* move_units ended the order of unit u short of its destination
Cancelled(u) ==
    /\ u \in MovingUnits(last.units)
    /\ ~Arrived(last.units[u].pos, finalDest.final[u])
    /\ ~units[u].moving

\* C8: a moving unit's order is cancelled by move_units exactly when the unit
\* makes no progress on the tick and its no-progress time, this tick included,
\* exceeds 2 s; the cancelling tick removes Moving, Destination and StuckTimer
\* and leaves the position as it was; a unit that makes no progress and keeps
\* its order has accumulated at most 2 s, and progress resets the time to 0.
StuckOrderCancelled ==
    last.op = "move_units" =>
        \A u \in MovingUnits(last.units) :
            LET before == last.units[u]
                after  == units[u]
            IN  /\ Cancelled(u) =>
                       /\ before.stuck.has
                       /\ before.stuck.timer + dt > STUCK_THRESHOLD
                       /\ after.pos = before.pos
                       /\ ~after.dest.has
                       /\ ~after.stuck.has
                /\ after.moving /\ before.stuck.has /\ ~Arrived(before.pos, finalDest.final[u]) =>
                       IF Dist2(before.pos, after.pos) <= MOVEMENT_THRESHOLD * MOVEMENT_THRESHOLD
                       THEN /\ after.stuck.timer = before.stuck.timer + dt
                            /\ after.stuck.timer <= STUCK_THRESHOLD
                       ELSE after.stuck.timer = 0

\* move_units cancelled the order of a unit that had been blocked for 2 s
BlockedUnitCancelled ==
    /\ last.op = "move_units"
    /\ \E u \in MovingUnits(last.units) :
           /\ Cancelled(u)
           /\ last.units[u].stuck.timer = STUCK_THRESHOLD

\* the destination of unit u lies inside the footprint of the box b
OrderedInto(u, b) ==
    /\ last.units[u].dest.has
    /\ ~ClearOf(Vec(last.units[u].dest.target.x, last.units[u].pos.y, last.units[u].dest.target.z),
                UnitRadius(last.units[u]),
                [pos |-> boxes[b].pos, size |-> DefaultObstacleSize], 0)

\* C9: a unit ordered to a destination inside the footprint of an obstacle is
\* kept out of the footprint: after every move_units its position is at least
\* unit_radius + obstacle_radius from the obstacle's centre, whatever other
\* units are around (0.02 is allowed for the rounding of the fixed-point
\* arithmetic).
KeptOutOfFootprint ==
    last.op = "move_units" =>
        \A u \in MovingUnits(last.units) : \A b \in DOMAIN boxes :
            OrderedInto(u, b) =>
                ClearOf(units[u].pos, UnitRadius(units[u]),
                        [pos |-> boxes[b].pos, size |-> DefaultObstacleSize], 20)

(***************************************************************************)
(* SpecPair: two characters on flat ground, no obstacles; each is ordered  *)
(* alone (so neither is the primary of a group) to the same cell, then the *)
(* frames run at a steady rate for ever                                    *)
(***************************************************************************)
\* frame lengths in milliseconds: 20, 10, 5 and 4 frames per second
PairDts == {50, 100, 200, 250}

\* the cells ordered to
PairCells == {Cell(i, j) : i \in 0..4, j \in 0..3}

InitPair == InitWorld(<<Character(0, 0), Character(3, 1)>>, <<>>, <<>>)

\* the frames after the two orders, not counted
PairFrame == orders = 2 /\ Frame(Steady(PairDts), 0)

NextPair ==
    \/ orders = 0 /\ \E c \in PairCells : MoveOrder(<<1>>, c)
    \/ orders = 1 /\ MoveOrder(<<2>>, ordered.arg)
    \/ PairFrame

\* the system that runs after the one of phase p
NextPhase(p) == CASE p = "input" -> "ground" [] p = "ground" -> "gather" [] OTHER -> "input"

\* the next system of the frame runs: every system of Frame moves phase on to
\* NextPhase(phase), and in every phase one of them is enabled
FrameRuns == orders = 2 /\ phase' = NextPhase(phase)

\* the game loop runs frame after frame and never stops
SpecPair == InitPair /\ [][NextPair]_vars /\ WF_phase(FrameRuns)

\* cell b is one of the 8 cells around cell a
Ring1(a, b) ==
    /\ Abs(a.x - b.x) <= GRID_SIZE
    /\ Abs(a.z - b.z) <= GRID_SIZE
    /\ (a.x # b.x \/ a.z # b.z)
    /\ b.x % GRID_SIZE = 0 /\ b.z % GRID_SIZE = 0

SameCell(a, b) == a.x = b.x /\ a.z = b.z

\* both characters stand still on distinct cell centres 1 grid unit apart
PairAtRest ==
    /\ \A u \in DOMAIN units :
           /\ ~units[u].moving
           /\ units[u].pos.x % GRID_SIZE = 0
           /\ units[u].pos.z % GRID_SIZE = 0
    /\ (units[1].pos.x - units[2].pos.x) * (units[1].pos.x - units[2].pos.x)
         + (units[1].pos.z - units[2].pos.z) * (units[1].pos.z - units[2].pos.z)
         = GRID_SIZE * GRID_SIZE

\* while both units move to the shared cell, every
\* arbitration gives the cell to one of them and a ring-1 neighbour to the other
PairSharesCell ==
    last.op = "move_units" /\ MovingUnits(last.units) = {1, 2} =>
        \E u, v \in {1, 2} :
            /\ u # v
            /\ SameCell(finalDest.final[u], ordered.arg)
            /\ Ring1(ordered.arg, finalDest.final[v])

\* C10: two non-primary units are ordered to the same cell on flat ground
\* without obstacles: every arbitration gives the cell to one and a ring-1
\* neighbour to the other, and after finitely many ticks both stand still on
\* distinct cells exactly 1 grid unit apart
PairSettles == []PairSharesCell /\ ((orders = 2) ~> PairAtRest)

(***************************************************************************)
(* SpecInv: Inventory::add_items called again and again on the inventory   *)
(* of one character, every call for an item with the max_stack the world   *)
(* keeps for that item                                                     *)
(***************************************************************************)
\* add_items calls in one run
MaxCalls == 3

\* the max_stack values the callers may keep for an item
StackLimits == {0, 1, 3}

\* the quantities asked for
Quantities == {0, 1, 2, 27, 90}

\* the items added
AddedItems == {"CopperOre", "TinOre"}

InitInv ==
    \E limits \in [ItemIds -> StackLimits] :
        InitLimited(<<Character(0, 0)>>, <<>>, <<>>, limits)

\* inventory.add_items(item_id, qty, max_stack) on the character's inventory
AddItems(item_id, qty) ==
    /\ orders < MaxCalls
    /\ LET res == add_items(units[1].inv, item_id, qty, max_stacks[item_id])
       IN  /\ units' = [units EXCEPT ![1].inv = res.slots]
           /\ last' = Record("add_items", <<1>>,
                             [item_id |-> item_id, qty |-> qty, added |-> res.added], {})
    /\ orders' = orders + 1
    /\ UNCHANGED <<nodes, boxes, phase, dt, finalDest, ordered, ticks, max_stacks>>

NextInv == \E item_id \in AddedItems : \E qty \in Quantities : AddItems(item_id, qty)

SpecInv == InitInv /\ [][NextInv]_vars

\* C11: after any sequence of add_items calls that use one max_stack per item,
\* at most 28 slots are occupied and no slot holds more than the max_stack of
\* its item.
SlotsWithinLimits ==
    LET inv == units[1].inv
    IN  /\ Len(inv) = INVENTORY_SLOTS
        /\ used_slots(inv) <= INVENTORY_SLOTS
        /\ \A i \in DOMAIN inv :
               inv[i].id # "None" => inv[i].qty >= 0 /\ inv[i].qty <= max_stacks[inv[i].id]

\* an add_items call filled the last free slots, with full stacks of 3, and
\* had to leave items out
InventoryFilledUp ==
    /\ last.op = "add_items"
    /\ last.arg.added > 0
    /\ last.arg.added < last.arg.qty
    /\ used_slots(units[1].inv) = INVENTORY_SLOTS
    /\ \E i \in DOMAIN units[1].inv : units[1].inv[i].qty = 3

\* the items the stacks of item_id in slots i.. can still take under max_stack
RECURSIVE RoomFrom(_, _, _, _)
RoomFrom(slots, item_id, max_stack, i) ==
    IF i > Len(slots) THEN 0
    ELSE (IF slots[i].id = item_id /\ slots[i].qty < max_stack
          THEN max_stack - slots[i].qty ELSE 0)
         + RoomFrom(slots, item_id, max_stack, i + 1)

\* the slots that hold nothing
EmptySlots(slots) == {i \in DOMAIN slots : slots[i].id = "None"}

\* C12: add_items tops up the stacks of the item in slot order up to max_stack
\* and only then fills empty slots in slot order; it returns the number of
\* items placed, which is min(qty, space left for the item), hence at most qty
\* and 0 without space; count_item of the item grows by the returned value and
\* no other item's count changes.
AddItemsContract ==
    last.op = "add_items" =>
        LET before    == last.units[1].inv
            after     == units[1].inv
            item_id   == last.arg.item_id
            qty       == last.arg.qty
            added     == last.arg.added
            max_stack == max_stacks[item_id]
            room      == RoomFrom(before, item_id, max_stack, 1)
            space     == room + max_stack * Cardinality(EmptySlots(before))
            stacks    == {i \in DOMAIN before : before[i].id = item_id}
        IN  /\ added = Min(qty, space)
            /\ count_item(after, item_id) = count_item(before, item_id) + added
            /\ \A other \in ItemIds \ {item_id} :
                   count_item(after, other) = count_item(before, other)
            \* the stacks there before are topped up, the earlier slots first
            /\ \A i \in stacks : after[i].id = item_id /\ after[i].qty >= before[i].qty
            /\ \A i, j \in stacks :
                   i < j /\ after[j].qty > before[j].qty => after[i].qty >= max_stack
            \* empty slots are used only for what the stacks could not take
            /\ \A i \in EmptySlots(before) :
                   after[i].id # "None" =>
                       /\ after[i].id = item_id
                       /\ qty > room
                       /\ \A k \in stacks : after[k].qty >= max_stack
                       /\ \A h \in EmptySlots(before) : h < i => after[h].qty = max_stack
            \* nothing else is touched
            /\ \A i \in DOMAIN before :
                   before[i].id \notin {"None", item_id} => after[i] = before[i]

\* an add_items call topped up a stack and went on to fill an empty slot
ToppedUpThenFilled ==
    /\ last.op = "add_items"
    /\ \E i, j \in DOMAIN units[1].inv :
           /\ last.units[1].inv[i].id = last.arg.item_id
           /\ units[1].inv[i].qty > last.units[1].inv[i].qty
           /\ last.units[1].inv[j].id = "None"
           /\ units[1].inv[j].id = last.arg.item_id
           /\ units[1].inv[j].qty > 0

(***************************************************************************)
(* SpecSnap: the three snap_to_grid functions applied, in any order and    *)
(* any number of times, to the destination of a character that starts at  *)
(* a raw position                                                          *)
(***************************************************************************)
\* raw coordinates in thousandths: on the grid, just off it, and at and around
\* the halves, on both sides of 0
RawCoords == {-1500, -501, -500, -499, -1, 0, 1, 499, 500, 501, 1000, 1499, 2500}

\* raw heights: the ground, the spawn height, the movement height, a node's height
RawHeights == {0, SPAWN_Y, GROUND_Y, 450}

\* the modules that define a snap_to_grid
SnapVariants == {"movement", "input", "gathering"}

\* snap_to_grid of the given module; gathering.rs rounds to whole units, which
\* is input.rs's rounding to GRID_SIZE = 1.0
SnapVariant(variant, p) ==
    IF variant = "movement" THEN snap_to_grid(p) ELSE snap_to_grid_keep_y(p)

InitSnap ==
    \E x \in RawCoords : \E y \in RawHeights : \E z \in RawCoords :
        InitWorld(<<[Character(0, 0) EXCEPT !.dest = Destination(Vec(x, y, z)),
                                            !.moving = TRUE]>>, <<>>, <<>>)

\* the destination is replaced by its snap_to_grid
SnapDestination(variant) ==
    /\ units' = [units EXCEPT ![1].dest.target = SnapVariant(variant, @)]
    /\ last' = Record("snap_to_grid", <<1>>, variant, {})
    /\ UNCHANGED <<nodes, boxes, phase, dt, finalDest, ordered, orders, ticks, max_stacks>>

NextSnap == \E variant \in SnapVariants : SnapDestination(variant)

SpecSnap == InitSnap /\ [][NextSnap]_vars

\* C13: each snap_to_grid is a function of the position, its result is a fixed
\* point of it, the x and z of the result are integer multiples of GRID_SIZE,
\* and y is 0.1 (movement) or the y of the position (input, gathering).
SnapIsIdempotent ==
    last.op = "snap_to_grid" =>
        LET variant == last.arg
            p       == last.units[1].dest.target
            q       == units[1].dest.target
        IN  /\ q = SnapVariant(variant, p)
            /\ SnapVariant(variant, q) = q
            /\ q.x % GRID_SIZE = 0
            /\ q.z % GRID_SIZE = 0
            /\ q.y = (IF variant = "movement" THEN GROUND_Y ELSE p.y)
            /\ 2 * Abs(q.x - p.x) <= GRID_SIZE
            /\ 2 * Abs(q.z - p.z) <= GRID_SIZE

\* a position off the ground height at a negative half was snapped, y kept
SnappedFromHalf ==
    /\ last.op = "snap_to_grid"
    /\ last.arg = "gathering"
    /\ last.units[1].dest.target = Vec(-500, 450, 1499)
    /\ units[1].dest.target = Vec(-1000, 450, 1000)

(***************************************************************************)
(* SpecRich: one character next to a copper rock whose remaining counter   *)
(* starts anywhere in the u32 range, ordered to gather; frames of 250 ms   *)
(***************************************************************************)
\* frames simulated after the gather order
RichTicks == 12

\* the rock's remaining at the start: small, around 2^16, 2^17, and the largest
\* values the model checker's integers hold (2^31 - 2^16 and 2^31 - 1)
RichRemaining == {1, 2, 65535, 65536, 65537, 131072, 2147418112, 2147483647}

InitRich ==
    \E remaining \in RichRemaining :
        InitWorld(<<Character(0, 1)>>, <<CopperNode(0, 2, remaining)>>, <<>>)

NextRich ==
    \/ orders = 0 /\ GatherOrder(<<1>>, 1)
    \/ orders = 1 /\ MayTick(RichTicks) /\ Frame(Dts, RichTicks)

SpecRich == InitRich /\ [][NextRich]_vars

\* unit u began the gathering pass Harvesting, in range, with a free slot and
\* ore left in its node, which no other unit had a task on, and its harvest
\* timer completed in the pass
CompletedHarvest(u) ==
    LET before == last.units[u]
    IN  /\ before.task.has
        /\ \A v \in DOMAIN last.units \ {u} :
               ~(last.units[v].task.has /\ last.units[v].task.target = before.task.target)
        /\ before.task.state = "Harvesting"
        /\ ResolvesNode(last.nodes, before.task.target)
        /\ InRange(before, last.nodes[before.task.target])
        /\ ~is_full(before.inv)
        /\ last.nodes[before.task.target].remaining > 0
        /\ TimerJustFinished(before.task, last.arg)

\* C14: a harvest timer that completes for an in-range Harvesting unit with a
\* free slot, while its node has ore left, adds exactly one item of the node's
\* kind to the unit and takes exactly 1 from remaining, whatever u32 value
\* remaining has.
HarvestTakesOne ==
    last.op = "gathering" =>
        \A u \in DOMAIN units :
            CompletedHarvest(u) =>
                LET r       == last.units[u].task.target
                    item_id == ItemOf(last.nodes[r].kind)
                IN  /\ count_item(units[u].inv, item_id)
                           = count_item(last.units[u].inv, item_id) + 1
                    /\ nodes[r].remaining = last.nodes[r].remaining - 1

(***************************************************************************)
(* SpecEvents: two characters, one with a full inventory, and two copper   *)
(* rocks, one of which may be despawned; batches of GatherEvents that name *)
(* any entity as unit and as resource are read by issue_gather_task        *)
(***************************************************************************)
\* the entities a GatherEvent may name as its unit: the two characters, and
\* entity 3, which is no controllable unit with an inventory
EventUnits == {1, 2, 3}

\* the entities a GatherEvent may name as its resource: the two rocks, and
\* entity 3, which is no resource node
EventResources == {1, 2, 3}

GatherEvent(unit, resource) == [unit |-> unit, resource |-> resource]

AllGatherEvents == {GatherEvent(u, r) : u \in EventUnits, r \in EventResources}

\* the events read in one run of issue_gather_task: one or two
EventBatches == {<<e>> : e \in AllGatherEvents} \cup (AllGatherEvents \X AllGatherEvents)

InitEvents ==
    InitWorld(<<Character(0, 0), Carrying(Character(1, 1), INVENTORY_SLOTS)>>,
              <<CopperNode(0, 2, 30), CopperNode(3, 2, 30)>>, <<>>)

\* issue_gather_task reads a batch of events
IssueGatherTask(events) ==
    /\ phase = "input"
    /\ orders < MaxOrders
    /\ units' = IssueEvents(units, nodes, events, 1)
    /\ orders' = orders + 1
    /\ ticks' = 0
    /\ last' = Record("gather_events", events, 0, {})
    /\ UNCHANGED <<nodes, boxes, phase, dt, finalDest, ordered, max_stacks>>

NextEvents ==
    \/ \E events \in EventBatches : IssueGatherTask(events)
    \/ ResourceDisappears(2)

SpecEvents == InitEvents /\ [][NextEvents]_vars

\* the event's resource is a live resource node and its unit a unit
EventResolves(e) == ResolvesNode(last.nodes, e.resource) /\ ResolvesUnit(last.units, e.unit)

\* the positions in the batch of the events for unit u that resolve
ResolvingFor(u) ==
    {i \in DOMAIN last.sel : last.sel[i].unit = u /\ EventResolves(last.sel[i])}

\* C15: a gather event whose resource or unit does not resolve is dropped: it
\* changes no unit and no node, and the batch's other events take effect. A
\* unit is changed only by the events for it that resolve: the last of them
\* gives it its task, unless its inventory is full.
UnresolvedEventDropped ==
    last.op = "gather_events" =>
        /\ nodes = last.nodes
        /\ \A u \in DOMAIN units :
               IF ResolvingFor(u) = {} \/ is_full(last.units[u].inv)
               THEN units[u] = last.units[u]
               ELSE LET i == CHOOSE k \in ResolvingFor(u) : \A h \in ResolvingFor(u) : h <= k
                        r == last.sel[i].resource
                    IN  /\ units[u].task = GatherTask(r, last.nodes[r].gather_rate)
                        /\ units[u].moving
                        /\ units[u].dest = Destination(snap_to_grid_keep_y(last.nodes[r].pos))
                        /\ units[u].inv = last.units[u].inv
                        /\ units[u].pos = last.units[u].pos

\* a batch began with an event for a despawned rock and went on with an event
\* that gave character 1 its task
EventAfterDroppedOneTookEffect ==
    /\ last.op = "gather_events"
    /\ Len(last.sel) = 2
    /\ last.sel[1] = GatherEvent(1, 2)
    /\ last.nodes[2].despawned
    /\ last.sel[2] = GatherEvent(1, 1)
    /\ ~last.units[1].task.has
    /\ units[1].task.has /\ units[1].task.target = 1

(***************************************************************************)
(* SpecPrimary: four characters on flat ground, no obstacles; two move     *)
(* orders to selections of three of them, iterated in spawn order; the     *)
(* fourth stands still; frames of 250 ms                                   *)
(***************************************************************************)
\* frames simulated after an order
PrimaryTicks == 2

\* the characters that can be selected
Selectable == {1, 2, 3}

\* the cells clicked: a free one, and the one the fourth character stands on
PrimaryCells == {Cell(3, 1), Cell(2, 3)}

InitPrimary ==
    InitWorld(<<Character(0, 0), Character(1, 0), Character(0, 2), Character(2, 3)>>, <<>>, <<>>)

NextPrimary ==
    \/ orders < 2 /\ \E sel \in SpawnOrderSelections(Selectable) : \E c \in PrimaryCells :
           MoveOrder(sel, c)
    \/ orders >= 1 /\ MayTick(PrimaryTicks) /\ Frame(Dts, PrimaryTicks)

SpecPrimary == InitPrimary /\ [][NextPrimary]_vars

\* position i of the sorted unit_data of the last move_units
SortedUnit(i) == SortUnitData(last.units, last.sel)[i]

\* the place of unit u in the iteration order of the last move_units
IterationIndex(u) == CHOOSE i \in DOMAIN last.sel : last.sel[i] = u

\* C16: arbitration processes the primary-flagged moving units before the
\* others, the others by ascending distance to their targets and equal
\* distances in iteration order; so every primary-flagged unit is assigned
\* the grid cell of its target unless a stationary unit occupies that cell.
PrimaryGetsTarget ==
    last.op = "move_units" =>
        /\ \A i, j \in 1..Len(last.sel) :
               i < j =>
                   LET a == last.units[SortedUnit(i)]
                       b == last.units[SortedUnit(j)]
                   IN  /\ b.primary => a.primary
                       /\ ~a.primary /\ ~b.primary =>
                              /\ Dist2(a.pos, TargetPos(a)) <= Dist2(b.pos, TargetPos(b))
                              /\ Dist2(a.pos, TargetPos(a)) = Dist2(b.pos, TargetPos(b)) =>
                                     IterationIndex(SortedUnit(i)) < IterationIndex(SortedUnit(j))
        /\ \A u \in MovingUnits(last.units) :
               LET cell == snap_to_grid(TargetPos(last.units[u]))
               IN  last.units[u].primary /\ CellAvailable(OccupiedDestinations(last.units), cell)
                       => finalDest.final[u] = cell

(***************************************************************************)
(* The unit that finds no free cell                                        *)
(***************************************************************************)
\* the units of the last move_units that found their target cell and all 20
\* alternatives claimed or occupied
StayingUnits == IF last.op = "move_units" THEN finalDest.stay ELSE {}

\* the centre of the cell p lies in, at p's height
OwnCell(p) == FlatDestination(p, snap_to_grid(p))

\* the unit found no free cell: its target cell and the 20 alternatives are
\* taken, and it is assigned the grid cell of its own position
AssignedOwnCell(u) ==
    LET before == last.units[u]
        target == snap_to_grid(TargetPos(before))
        alts   == generate_formation_alternatives(target, before.pos)
    IN  /\ ~CellAvailable(finalDest.assigned, target)
        /\ \A k \in 1..Len(alts) : ~CellAvailable(finalDest.assigned, alts[k])
        /\ finalDest.final[u] = snap_to_grid(before.pos)

\* the unit is at rest on the centre of its cell (Moving, Destination and
\* StuckTimer removed) or still Moving with the Destination it had
NoErrorState(u) ==
    \/ /\ ~units[u].moving /\ ~units[u].dest.has /\ ~units[u].stuck.has
       /\ units[u].pos = OwnCell(last.units[u].pos)
    \/ /\ units[u].moving /\ units[u].dest = last.units[u].dest

\* the unit is still in the cell it was in
KeepsItsCell(u) == snap_to_grid(units[u].pos) = snap_to_grid(last.units[u].pos)

\* the unit has come no nearer to the target of its order
NoNearerToTarget(u) ==
    LET target == FlatDestination(last.units[u].pos, snap_to_grid(TargetPos(last.units[u])))
    IN  Dist2(units[u].pos, target) >= Dist2(last.units[u].pos, target)

\* C17: a moving unit whose target cell and 20 alternative cells are all
\* claimed or occupied is assigned the grid cell of its own current position;
\* on that tick it does not travel towards the target of its order (it comes
\* no nearer to it) and it enters no error state: afterwards it is at rest in
\* its cell or still Moving with its Destination.
NoFreeCellStaysPut ==
    \A u \in StayingUnits :
        /\ AssignedOwnCell(u)
        /\ NoNearerToTarget(u)
        /\ NoErrorState(u)

\* the part of C17 that holds: the unit is assigned its own cell, stays in it
\* on that tick and enters no error state
NoFreeCellAssigned ==
    \A u \in StayingUnits : AssignedOwnCell(u) /\ NoErrorState(u) /\ KeepsItsCell(u)

(***************************************************************************)
(* SpecAlt: the crowd of SpecArb; the two other characters are ordered to  *)
(* a cell inside the crowd whose nearest free alternative is two cells     *)
(* away, or to the cell one of them stands on                              *)
(***************************************************************************)
\* a crowded cell with free alternatives at distance 2 and sqrt 5, and the cell
\* of the first mover
AltCells == {Cell(1, 0), Cell(4, 0)}

NextAlt ==
    \/ \E sel \in Selections(Movers) : \E c \in AltCells : MoveOrder(sel, c)
    \/ MayTick(MaxTicks) /\ Frame(Dts, MaxTicks)

SpecAlt == InitArb /\ [][NextAlt]_vars

\* the cells claimed or occupied when the assignment loop of the last
\* move_units reaches position i of the sorted unit_data
ClaimedBefore(i) ==
    OccupiedDestinations(last.units) \cup
    {finalDest.final[SortedUnit(j)] : j \in {k \in 1..(i - 1) : SortedUnit(k) \notin finalDest.stay}}

\* the 20 cells around a target cell
AlternativeCells(target) ==
    {Add(target, Vec(dx * GRID_SIZE, 0, dz * GRID_SIZE)) :
        <<dx, dz>> \in {<<x, z>> \in (-2..2) \X (-2..2) :
                           x * x + z * z \in {1, 2, 4, 5}}}

\* the units of the last move_units that found their target cell taken and
\* were assigned an alternative, as positions of the sorted unit_data
Diverted ==
    IF last.op # "move_units" THEN {}
    ELSE {i \in 1..Len(last.sel) :
             /\ SortedUnit(i) \notin finalDest.stay
             /\ ~CellAvailable(ClaimedBefore(i), snap_to_grid(TargetPos(last.units[SortedUnit(i)])))}

\* C18: a unit whose target cell is taken is assigned an unclaimed cell of the
\* 20 around the target such that no unclaimed one of the 20 is nearer to the
\* target, and none equally near to the target is nearer to the unit's
\* current position.
NearestAlternativeAssigned ==
    \A i \in Diverted :
        LET u       == SortedUnit(i)
            current == last.units[u].pos
            target  == snap_to_grid(TargetPos(last.units[u]))
            cell    == finalDest.final[u]
            free    == {a \in AlternativeCells(target) : CellAvailable(ClaimedBefore(i), a)}
        IN  /\ Cardinality(AlternativeCells(target)) = 20
            /\ cell \in free
            /\ \A a \in free :
                   /\ Dist2(target, a) >= Dist2(target, cell)
                   /\ Dist2(target, a) = Dist2(target, cell) =>
                          Dist2(current, a) >= Dist2(current, cell)

\* a unit was assigned a cell two cells away from its target because the eight
\* nearer ones were taken, although a free cell of the 20 was nearer to the
\* unit itself
DivertedPastNearerCell ==
    \E i \in Diverted :
        LET u       == SortedUnit(i)
            current == last.units[u].pos
            target  == snap_to_grid(TargetPos(last.units[u]))
            cell    == finalDest.final[u]
        IN  /\ Dist2(target, cell) = 4 * GRID_SIZE * GRID_SIZE
            /\ \E a \in AlternativeCells(target) :
                   /\ CellAvailable(ClaimedBefore(i), a)
                   /\ Dist2(current, a) < Dist2(current, cell)

(***************************************************************************)
(* The arms of the gathering pass                                          *)
(***************************************************************************)
\* the units whose task the last gathering pass began with in the given state
\* and whose resource node was there
Gatherers(state) ==
    IF last.op # "gathering" THEN {}
    ELSE {u \in TasksIn(state) : ~last.nodes[last.units[u].task.target].despawned}

\* the node of the task unit u had at the gathering pass
NodeOf(u) == last.units[u].task.target

\* unit u was within gather_radius of its node at the gathering pass
WasInRange(u) ==
    Dist2(last.units[u].pos, last.nodes[NodeOf(u)].pos)
        <= last.nodes[NodeOf(u)].gather_radius * last.nodes[NodeOf(u)].gather_radius

\* the pass gave unit u no item: its inventory is as before, no InventoryChanged
\* names it, and its node's remaining went down only by the items the pass
\* gave to other units
NothingHarvestedBy(u) ==
    /\ units[u].inv = last.units[u].inv
    /\ u \notin last.events
    /\ last.nodes[NodeOf(u)].remaining - nodes[NodeOf(u)].remaining
           = Cardinality({v \in last.events : NodeOf(v) = NodeOf(u)})

\* C19: in the gathering pass a Walking unit within gather_radius of its node
\* becomes Harvesting and loses Moving, and gets no item on that tick; a
\* Walking unit farther away stays Walking, and its inventory and (by it) the
\* node's remaining are unchanged.
WalkingArmSwitchesInRange ==
    \A u \in Gatherers("Walking") :
        /\ WasInRange(u) =>
               /\ units[u].task = [last.units[u].task EXCEPT !.state = "Harvesting"]
               /\ ~units[u].moving
               /\ NothingHarvestedBy(u)
        /\ ~WasInRange(u) =>
               /\ units[u].task = last.units[u].task
               /\ units[u].moving = last.units[u].moving
               /\ NothingHarvestedBy(u)

\* one gathering pass found a Walking unit in range, which was Moving, and
\* another Walking unit out of range
WalkersNearAndFar ==
    \E u, v \in Gatherers("Walking") :
        /\ WasInRange(u) /\ last.units[u].moving /\ units[u].task.state = "Harvesting"
        /\ ~WasInRange(v) /\ units[v].task.state = "Walking"

\* C20: in the gathering pass a Harvesting unit farther from its node than
\* gather_radius becomes Walking and gets Moving; on that tick its harvest
\* timer is not advanced, no item is added to its inventory and the node's
\* remaining is not decremented by it.
HarvestingArmRevertsOutOfRange ==
    \A u \in Gatherers("Harvesting") :
        ~WasInRange(u) =>
            /\ units[u].task = [last.units[u].task EXCEPT !.state = "Walking"]
            /\ units[u].moving
            /\ NothingHarvestedBy(u)

\* a Harvesting unit with room in its inventory and ore left in its node was
\* found out of range
HarvesterOutOfRange ==
    \E u \in Gatherers("Harvesting") :
        /\ ~WasInRange(u)
        /\ ~is_full(last.units[u].inv)
        /\ last.nodes[NodeOf(u)].remaining > 0
        /\ units[u].task.state = "Walking"

\* C21: in the gathering pass a Harvesting unit in range whose inventory is
\* full becomes Full without its timer advancing; and a unit whose task is Full
\* gets no item and takes nothing from the node in any gathering pass, and
\* while the task exists its inventory never changes.
FullStopsHarvesting ==
    /\ \A u \in Gatherers("Harvesting") :
           WasInRange(u) /\ EverySlotHolds(last.units[u].inv) =>
               /\ units[u].task = [last.units[u].task EXCEPT !.state = "Full"]
               /\ NothingHarvestedBy(u)
    /\ \A u \in Gatherers("Full") :
           /\ units[u].task = last.units[u].task
           /\ NothingHarvestedBy(u)
    /\ \A u \in DOMAIN units :
           units[u].task.has /\ units[u].task.state = "Full" =>
               /\ EverySlotHolds(units[u].inv)
               /\ last.units[u].task.has /\ last.units[u].task.state = "Full" =>
                      units[u].inv = last.units[u].inv

\* a unit that became Full stood through a gathering pass five or more frames
\* after the last order, in range of its node and with ore left in it
FullUnitTakesNothing ==
    \E u \in Gatherers("Full") :
        /\ WasInRange(u)
        /\ last.nodes[NodeOf(u)].remaining > 0
        /\ ticks >= 5

\* the Harvesting units of the last gathering pass that were in range with a
\* free slot while their node had nothing left when the pass began
AtDepletedNode ==
    {u \in Gatherers("Harvesting") :
        /\ WasInRange(u)
        /\ ~EverySlotHolds(last.units[u].inv)
        /\ last.nodes[NodeOf(u)].remaining = 0}

\* C22: in the gathering pass a Harvesting unit in range, with a free slot,
\* whose node has remaining = 0 loses its GatherTask, and on that tick its
\* inventory and the node are unchanged.
DepletedNodeEndsTask ==
    \A u \in AtDepletedNode :
        /\ ~units[u].task.has
        /\ units[u] = [last.units[u] EXCEPT !.task = NoGatherTask]
        /\ nodes[NodeOf(u)] = last.nodes[NodeOf(u)]
        /\ u \notin last.events

\* a unit with a free slot, harvesting a node whose ore had all been
\* harvested, lost its task
TaskEndedAtDepletedNode ==
    \E u \in AtDepletedNode :
        /\ ~units[u].task.has
        /\ last.nodes[NodeOf(u)].given > 0

(***************************************************************************)
(* SpecShare: three characters within gather_radius of one copper rock     *)
(* that holds one to four ores; gather orders to any of them; frames of    *)
(* 250 ms                                                                  *)
(***************************************************************************)
\* frames simulated after an order
ShareTicks == 5

\* the rock's remaining at the start: fewer ores than units, as many, and more
ShareRemaining == {1, 2, 3, 4}

InitShare ==
    \E remaining \in ShareRemaining :
        InitWorld(<<Character(0, 1), Character(1, 1), Character(-1, 1)>>,
                  <<CopperNode(0, 2, remaining)>>, <<>>)

NextShare ==
    \/ \E sel \in SpawnOrderSelections(DOMAIN units) : GatherOrder(sel, 1)
    \/ orders >= 1 /\ MayTick(ShareTicks) /\ Frame(Dts, ShareTicks)

SpecShare == InitShare /\ [][NextShare]_vars

\* the units that began the last gathering pass Harvesting node n, in range
\* and with a free slot, and whose timers completed in the pass
Completing(n) ==
    {u \in Gatherers("Harvesting") :
        /\ NodeOf(u) = n
        /\ WasInRange(u)
        /\ ~EverySlotHolds(last.units[u].inv)
        /\ last.units[u].task.elapsed + last.arg >= last.units[u].task.period}

\* the items of node n's kind unit u gained in the last pass
Gained(u, n) ==
    count_item(units[u].inv, ItemOf(last.nodes[n].kind))
        - count_item(last.units[u].inv, ItemOf(last.nodes[n].kind))

\* the units of S that gained an item of node n in the last pass
Receivers(S, n) == {u \in S : Gained(u, n) > 0}

\* the place of unit u in the order in which the last gathering pass took the units
PassIndex(u) == CHOOSE i \in DOMAIN last.sel : last.sel[i] = u

\* C23: when the k units Harvesting one node all complete their timers in the
\* same gathering pass with remaining = r, exactly min(k, r) items are handed
\* out, each unit gets at most one, remaining ends at r - min(k, r), and the
\* units that get one are the first min(k, r) the pass takes: none gets an
\* item after remaining has reached 0.
SharedNodeHandsOutMin ==
    last.op = "gathering" =>
        \A n \in DOMAIN nodes :
            LET H == Completing(n)
                k == Cardinality(H)
                r == last.nodes[n].remaining
            IN  /\ ~last.nodes[n].despawned
                /\ H = {u \in Gatherers("Harvesting") : NodeOf(u) = n}
                /\ r > 0
                =>
                /\ \A u \in H : Gained(u, n) \in {0, 1}
                /\ Cardinality(Receivers(H, n)) = Min(k, r)
                /\ nodes[n].remaining = r - Min(k, r)
                /\ \A u \in Receivers(H, n) :
                       Cardinality({v \in H : PassIndex(v) < PassIndex(u)}) < r
                /\ \A u \in last.events : u \in Receivers(H, n)

\* three units completed their timers in one pass at a node with two ores
\* left: two of them got an ore
ThreeShareTwoOres ==
    /\ last.op = "gathering"
    /\ Cardinality(Completing(1)) = 3
    /\ last.nodes[1].remaining = 2
    /\ Cardinality(Receivers(DOMAIN units, 1)) = 2

\* the items of node n's kind the units of S gained in the last step
RECURSIVE SumGained(_, _)
SumGained(S, n) ==
    IF S = {} THEN 0
    ELSE LET u == CHOOSE v \in S : TRUE
         IN  Gained(u, n) + SumGained(S \ {u}, n)

\* the units that held a task on node n when the last step began
TaskedOn(n) == {u \in DOMAIN units : last.units[u].task.has /\ last.units[u].task.target = n}

\* C24: every step takes from a node's remaining exactly the number of items
\* that were added to the inventories of the units tasked on it, an
\* InventoryChanged event names exactly the units that gained an item, and so
\* at every tick initial remaining = remaining + the items handed out from
\* the node.
RemainingDebitedByAdded ==
    \A n \in DOMAIN nodes :
        /\ last.nodes[n].remaining - nodes[n].remaining = SumGained(TaskedOn(n), n)
        /\ nodes[n].initial = nodes[n].remaining + nodes[n].given
        /\ nodes[n].given - last.nodes[n].given = SumGained(TaskedOn(n), n)
        /\ \A u \in DOMAIN units :
               /\ u \notin TaskedOn(n) => Gained(u, n) = 0
               /\ last.op = "gathering" /\ u \in TaskedOn(n) =>
                      (u \in last.events <=> Gained(u, n) > 0)

\* one gathering pass handed out two items from one node
TwoItemsInOnePass ==
    /\ last.op = "gathering"
    /\ \E n \in DOMAIN nodes :
           /\ SumGained(TaskedOn(n), n) = 2
           /\ nodes[n].remaining = last.nodes[n].remaining - 2

(***************************************************************************)
(* SpecFast: one character next to a rock of five ores whose gather rate   *)
(* is 1, 4 or 10 items per second, ordered to gather; frames of 100 or     *)
(* 250 ms, so that one frame spans up to two and a half timer periods      *)
(***************************************************************************)
\* frames simulated after the gather order
FastTicks == 8

\* gather rates in thousandths per second: timer periods of 1000, 250 and 100 ms
FastRates == {1000, 4000, 10000}

\* frame lengths in milliseconds
FastDts == {100, 250}

InitFast ==
    \E rate \in FastRates :
        InitWorld(<<Character(0, 1)>>,
                  <<[CopperNode(0, 2, 5) EXCEPT !.gather_rate = rate]>>, <<>>)

NextFast ==
    \/ orders = 0 /\ GatherOrder(<<1>>, 1)
    \/ orders = 1 /\ MayTick(FastTicks) /\ Frame(FastDts, FastTicks)

SpecFast == InitFast /\ [][NextFast]_vars

\* C25: in one gathering pass a Harvesting unit gains at most one item and
\* its node's remaining goes down by at most 1 on its account, however many
\* timer periods the frame spans.
OneItemPerTick ==
    last.op = "gathering" =>
        /\ \A u \in Gatherers("Harvesting") : Gained(u, NodeOf(u)) \in {0, 1}
        /\ \A n \in DOMAIN nodes :
               last.nodes[n].remaining - nodes[n].remaining
                   \in 0..Cardinality({u \in Gatherers("Harvesting") : NodeOf(u) = n})

\* a frame that spanned two or more periods of the unit's timer gave it one item
FrameSpannedPeriods ==
    /\ last.op = "gathering"
    /\ \E u \in Gatherers("Harvesting") :
           /\ last.units[u].task.elapsed + last.arg >= 2 * last.units[u].task.period
           /\ Gained(u, NodeOf(u)) = 1
           /\ nodes[NodeOf(u)].remaining = last.nodes[NodeOf(u)].remaining - 1

(***************************************************************************)
(* SpecTree: one character next to a tree; gather orders and move orders   *)
(* to the cell diagonally next to the tree, which is beyond gather_radius  *)
(* of the tree's centre; a steady frame rate of 100 or 250 ms              *)
(***************************************************************************)
\* frames simulated after an order
TreeTicks == 7

\* frame lengths in milliseconds
TreeDts == {100, 250}

\* the cell clicked: diagonally next to the tree
TreeCells == {Cell(1, 1)}

InitTree == InitWorld(<<Character(0, 1)>>, <<TreeNode(0, 2, 50)>>, <<>>)

NextTree ==
    \/ GatherOrder(<<1>>, 1)
    \/ \E c \in TreeCells : MoveOrder(<<1>>, c)
    \/ orders >= 1 /\ MayTick(TreeTicks) /\ Frame(Steady(TreeDts), TreeTicks)

SpecTree == InitTree /\ [][NextTree]_vars

\* C26: in every reachable state a unit that carries Moving also carries a
\* Destination, so it is either a moving unit of move_units or a stationary one.
MovingHasDestination ==
    \A u \in DOMAIN units : units[u].moving => units[u].dest.has

(***************************************************************************)
(* SpecGrove: a tree with a character standing on each of the four cells   *)
(* next to it, and two more characters equally far from the tree that are  *)
(* ordered to gather from it; no move order is given; frames of 100 ms     *)
(***************************************************************************)
\* frames simulated after an order
GroveTicks == 18

\* frame lengths in milliseconds
GroveDts == {100}

\* the two characters that are given orders
Gatherers56 == {5, 6}

InitGrove ==
    InitWorld(<<Character(0, 1), Character(1, 2), Character(-1, 2), Character(0, 3),
                Character(-3, 5), Character(3, 5)>>,
              <<TreeNode(0, 2, 50)>>, <<>>)

NextGrove ==
    \/ \E sel \in Selections(Gatherers56) : GatherOrder(sel, 1)
    \/ orders >= 1 /\ MayTick(GroveTicks) /\ Frame(GroveDts, GroveTicks)

SpecGrove == InitGrove /\ [][NextGrove]_vars

\* C27: in every reachable state a unit whose gather task is Walking has a
\* Destination; arrival and stuck-cancellation never leave a Walking unit with
\* no Destination and no Moving.
WalkingHasDestination ==
    \A u \in DOMAIN units :
        units[u].task.has /\ units[u].task.state = "Walking" => units[u].dest.has

(***************************************************************************)
(* SpecStuck: two characters and a box; a selection is ordered into the box's   *)
(* cell, and a unit that has stopped making progress is given the order    *)
(* again; frames of 250 ms                                                 *)
(***************************************************************************)
\* frames simulated after an order
StuckTicks == 16

InitStuck == InitWorld(<<Character(0, 1), Character(1, 0)>>, <<>>, <<Box(2, 1)>>)

NextStuck ==
    \/ orders = 0 /\ \E sel \in Selections(DOMAIN units) : MoveOrder(sel, Cell(2, 1))
    \/ orders = 1 /\ \E u \in DOMAIN units :
           units[u].moving /\ units[u].stuck.timer > 0 /\ MoveOrder(<<u>>, Cell(2, 1))
    \/ orders >= 1 /\ MayTick(StuckTicks) /\ Frame(Dts, StuckTicks)

SpecStuck == InitStuck /\ [][NextStuck]_vars

\* the time in milliseconds since the last order was given, this frame included
SinceLastOrder == ticks * dt

\* C28: move_units cancels a unit's order as stuck only when the unit has
\* spent more than stuck_threshold without progress since its current order
\* was given.
StuckCountsFromOrder ==
    last.op = "move_units" =>
        \A u \in MovingUnits(last.units) :
            Cancelled(u) /\ u \in {ordered.sel[i] : i \in DOMAIN ordered.sel} =>
                SinceLastOrder > STUCK_THRESHOLD


\* the square of the horizontal distance of unit u of us to its final destination
ToFinal2(us, u) ==
    LET pos == us[u].pos
    IN  Dist2(pos, FlatDestination(pos, finalDest.final[u]))

\* C29: on a tick where a moving unit collides with no obstacle and is nudged
\* by no neighbouring unit (the lone walker of SpecWalk, with no obstacle in the
\* world), its horizontal distance to its final destination does not
\* increase, for every tick length.
StepNeverPassesFarther ==
    last.op = "move_units" =>
        \A u \in MovingUnits(last.units) :
            ToFinal2(units, u) <= ToFinal2(last.units, u)


\* C30: an add_items call that returns 0 leaves all 28 slots exactly as they
\* were, for every item, every qty and every max_stack, so that used_slots()
\* and is_full() are unchanged.
NothingAddedNothingChanged ==
    last.op = "add_items" /\ last.arg.added = 0 =>
        /\ units[1].inv = last.units[1].inv
        /\ used_slots(units[1].inv) = used_slots(last.units[1].inv)
        /\ is_full(units[1].inv) = is_full(last.units[1].inv)

====
